---- MODULE Spec2Model ----
(***************************************************************************)
(* Agent execution and activity streaming of wreckit:                      *)
(*   - run_agent            (src/src/agent/runner.rs)                      *)
(*   - run_agent_with_tui   (src/src/tui/agent_helper.rs)                  *)
(*   - TuiRunner            (src/src/tui/runner.rs)                        *)
(*   - TuiState             (src/src/tui/state.rs)                         *)
(*                                                                         *)
(*   - parse_agent_line     (src/src/agent/parser.rs)                      *)
(*   - the item workflow    (src/src/domain/)                              *)
(*   - render_logs_pane     (src/src/tui/widgets.rs)                       *)
(*                                                                         *)
(* The specifications of the module:                                       *)
(*   SpecRun   one call of run_agent against an arbitrary child process    *)
(*   FairRun   SpecRun with the fairness of the async runtime              *)
(*   SpecPipe  runs, their bridges, the update stream, the consumer task   *)
(*             and the render/keyboard loop around one shared TuiState     *)
(*   SpecFlood SpecPipe with a producer that overruns the broadcast ring   *)
(*   SpecBacklog the producers in front of a full update stream            *)
(*   SpecAgents concurrent calls of run_agent_with_tui                     *)
(*   SpecStore sequences of updates applied to a fresh TuiState            *)
(*   SpecReplay the same updates applied to two TuiStates                  *)
(*   SpecParse parse_agent_line on every short line                        *)
(*   SpecFlow  validate_transition and apply_state_transition on an item   *)
(*   SpecLoop  the key loop of TuiRunner and the logs pane it draws        *)
(* Text is a sequence of tokens: a token is a run of bytes that the code   *)
(* never splits, and Width gives its length in bytes.                      *)
(***************************************************************************)
EXTENDS Integers, Sequences, FiniteSets, TLC

VARIABLES
    \* ---- run_agent (runner.rs) ----
    opts,       \* RunAgentOptions of the call
    pc,         \* position of run_agent
    child,      \* the child process
    stdinBuf,   \* bytes of the prompt in the stdin pipe, not yet read by the child
    stdinLeft,  \* chunks of the prompt not yet written
    stdinRd,    \* TRUE while the child holds the read end of its stdin
    pipe,       \* pipe[s]: raw bytes written by the child and not yet read, s in Streams
    wopen,      \* wopen[s]: some process still holds the write end of s
    task,       \* task[s]: the reader task of stream s
    cap,        \* cap[s]: text accumulated by the reader task of s
    nChunks,    \* chunks the child has written so far
    result,     \* what run_agent returned
    nReturns,   \* how many times run_agent has returned
    fault,      \* the system call of this run that fails, if any
    cb,         \* cb[s]: the chunks handed to on_stdout / on_stderr
    \* ---- TuiRunner.state (tui/runner.rs 53) ----
    state,      \* the shared TuiState
    now,        \* what Utc::now() returns
    nOps,       \* operations applied to the state by the driver of SpecStore
    \* ---- run_agent_with_tui (tui/agent_helper.rs), per run r ----
    rpc,        \* rpc[r]: position of run_agent_with_tui
    side,       \* side[r]: the channel of AgentEvents (agent_event_tx / _rx)
    emitted,    \* emitted[r]: the events run r has published, in order
    bridge,     \* bridge[r]: position of the forwarder task
    held,       \* held[r]: the event the forwarder has received and not yet sent
    aborted,    \* aborted[r]: event_forwarder.abort() has been called
    \* ---- the update stream and the TuiRunner (tui/runner.rs) ----
    tuiChan,    \* the mpsc channel behind tui_tx
    bcast,      \* the broadcast channel of TuiRunner, as seen by the consumer
    lagged,     \* the broadcast channel has overwritten an update not yet received
    closed,     \* every sender of the update stream has been dropped
    cpc,        \* position of the consumer task
    cur,        \* the update the consumer task has received
    lock,       \* holder of the Mutex around the TuiState
    snapshot,   \* the last value get_state returned
    applied,    \* applied[r]: the events of run r the consumer has applied, in order
    committed,  \* the TuiState after the last update applied as one step
    budget,     \* what is left to the key presses, snapshots and other producers
    \* ---- parse_agent_line (agent/parser.rs) ----
    srcLine,    \* the line of output handed to parse_agent_line
    events,     \* what parse_agent_line returned; None before it returns
    \* ---- workflow of an item (domain/) ----
    workItem,   \* item.state of the item
    verdict,    \* the last call of validate_transition and what it returned
    \* ---- a second TuiState fed the same updates ----
    twin,       \* twin.state is the TuiState, twin.now its clock
    \* ---- the key loop of TuiRunner (tui/runner.rs 193-320) ----
    scroll_offset,  \* TuiRunner.scroll_offset
    auto_scroll,    \* TuiRunner.auto_scroll
    drawn,      \* the TuiState the loop fetched for this round; None between rounds
    pane        \* what the last terminal.draw made of the main area

runVars == <<opts, pc, child, stdinBuf, stdinLeft, stdinRd, pipe, wopen, task, cap,
             nChunks, result, nReturns, fault, cb>>

storeVars == <<state, now, nOps>>

runsVars == <<rpc, side, emitted, bridge, held, aborted>>

tuiVars == <<tuiChan, bcast, lagged, closed, cpc, cur, lock, snapshot, applied,
             committed, budget>>

\* the variables of TuiRunner but the update in hand
tuiRest == <<tuiChan, bcast, lagged, closed, cpc, lock, snapshot, applied, committed, budget>>

pipeVars == <<runsVars, tuiVars>>

\* the variables of the parser, of the workflow and of the replayed state
\* the variables of the key loop
loopVars == <<scroll_offset, auto_scroll, drawn, pane>>

libVars == <<srcLine, events, workItem, verdict, twin, loopVars>>

vars == <<runVars, storeVars, pipeVars, libVars>>

\* ------------------------------------------------------------------ bounds
MaxChunks == 2      \* chunks of output the child writes in one run
MaxPrompt == 2      \* chunks of prompt text
PipeCap == 1        \* chunks the operating system buffers in the stdin pipe
MaxOps == 3         \* operations applied to the state after the bursts
MaxClock == 1       \* ticks of the clock
MaxEmit == 2        \* events the runs publish, all runs together
MaxAside == 1       \* key presses, get_state calls and updates of other producers
MaxLine == 3       \* tokens of a line given to parse_agent_line, but for lines of two markers
MaxStories == 1    \* user stories of a PRD
MaxScroll == 16    \* lines the key loop scrolls up at most
MaxHeight == 3     \* rows of the main area of the terminal
MaxLogLines == 3   \* log lines the key loop sees appended

\* -------------------------------------------------------------------- text
NL == "\n"
CR == "\r"

RECURSIVE Concat(_)
\* the concatenation of a sequence of texts
Concat(ss) == IF ss = <<>> THEN <<>> ELSE Head(ss) \o Concat(Tail(ss))

\* str::contains: sub occurs in s as a contiguous run
Contains(s, sub) ==
    \E i \in 1..(Len(s) - Len(sub) + 1) : SubSeq(s, i, i + Len(sub) - 1) = sub

\* position of the first line feed of s, 0 when there is none
FirstNL(s) ==
    IF \E i \in 1..Len(s) : s[i] = NL
    THEN CHOOSE i \in 1..Len(s) : s[i] = NL /\ \A j \in 1..(i - 1) : s[j] # NL
    ELSE 0

\* Lines::next_line on a line that ended in a line feed: the feed is
\* removed, then one carriage return before it
StripEol(l) ==
    LET a == IF Len(l) > 0 /\ l[Len(l)] = NL THEN SubSeq(l, 1, Len(l) - 1) ELSE l
    IN  IF Len(l) > 0 /\ l[Len(l)] = NL /\ Len(a) > 0 /\ a[Len(a)] = CR
        THEN SubSeq(a, 1, Len(a) - 1) ELSE a

\* ------------------------------------------------------------- run_agent
Streams == {"out", "err"}

\* Option<T>: None is the empty sequence, Some(x) the sequence <<x>>
None == <<>>
Some(x) == <<x>>

NoResult == [kind |-> "none"]

\* what the child may write in one write call
Chunks == { <<"D", NL>>, <<"x">>, <<"x", CR, NL>> }

\* completion signals of the configuration
Signals == { <<"D">>, <<"x", NL, "D">> }

\* how a child ends by itself: exit code 0 or 1, or a signal
ExitStatuses == {"exit0", "exit1", "signaled"}

\* the operating system may refuse to spawn, or fail the wait call
Faults == {"none", "spawn", "wait"}

OptionSet ==
    [dry_run : BOOLEAN, completion_signal : Signals, prompt : 0..MaxPrompt,
     callbacks : BOOLEAN]

ChildRunning == child = "running"
ChildExited == child \notin {"none", "running"}

\* ExitStatus::code and ExitStatus::success of a finished child
StatusCode(c) ==
    CASE c = "exit0" -> Some(0)
      [] c = "exit1" -> Some(1)
      [] OTHER -> None
StatusSuccess(c) == c = "exit0"

RunInit ==
    /\ opts \in OptionSet
    /\ pc = "start"
    /\ child = "none"
    /\ stdinBuf = 0
    /\ stdinLeft = 0
    /\ stdinRd = FALSE
    /\ pipe = [s \in Streams |-> <<>>]
    /\ wopen = [s \in Streams |-> FALSE]
    /\ task = [s \in Streams |-> "none"]
    /\ cap = [s \in Streams |-> <<>>]
    /\ nChunks = 0
    /\ result = NoResult
    /\ nReturns = 0
    /\ fault \in Faults
    /\ cb = [s \in Streams |-> <<>>]

\* a dry run that reports no exit code
DryRunResult_NoCode ==
    [kind |-> "ok", success |-> TRUE, output |-> <<"[", "D", "R", "Y", "]">>,
     timed_out |-> FALSE, exit_code |-> None, completion_detected |-> TRUE]

\* the canned result of a dry run
DryRunResult ==
    [kind |-> "ok", success |-> TRUE, output |-> <<"[", "D", "R", "Y", "]">>,
     timed_out |-> FALSE, exit_code |-> Some(0), completion_detected |-> TRUE]

\* runner.rs 76-84
DryRun ==
    /\ pc = "start"
    /\ opts.dry_run
    /\ result' = DryRunResult
    /\ nReturns' = nReturns + 1
    /\ pc' = "returned"
    /\ UNCHANGED <<libVars, storeVars, pipeVars, fault, opts, child, stdinBuf, stdinLeft, stdinRd, pipe, wopen, task, cap,
                   nChunks, cb>>

\* runner.rs 86-95, the spawn succeeds: three pipes, the child starts
SpawnOk ==
    /\ pc = "start"
    /\ ~opts.dry_run
    /\ fault # "spawn"
    /\ child' = "running"
    /\ stdinRd' = TRUE
    /\ stdinLeft' = opts.prompt
    /\ wopen' = [s \in Streams |-> TRUE]
    /\ pc' = "write_stdin"
    /\ UNCHANGED <<libVars, storeVars, pipeVars, fault, opts, stdinBuf, pipe, task, cap, nChunks, result, nReturns, cb>>

\* a failure reported as a result that failed
ErrResult_AsResult(what) ==
    [kind |-> "ok", success |-> FALSE, output |-> <<>>, timed_out |-> FALSE,
     exit_code |-> None, completion_detected |-> FALSE]

\* Err(AgentError::...) of runner.rs 95, 101, 144
ErrResult(what) == [kind |-> "err", error |-> what]

\* runner.rs 93-95, the spawn fails: `?` returns the error
SpawnFail ==
    /\ pc = "start"
    /\ ~opts.dry_run
    /\ fault = "spawn"
    /\ result' = ErrResult("spawn")
    /\ nReturns' = nReturns + 1
    /\ pc' = "returned"
    /\ UNCHANGED <<libVars, storeVars, pipeVars, fault, opts, child, stdinBuf, stdinLeft, stdinRd, pipe, wopen, task, cap,
                   nChunks, cb>>

\* runner.rs 99-101, write_all makes progress: the pipe has room
WriteStdin ==
    /\ pc = "write_stdin"
    /\ stdinLeft > 0
    /\ stdinRd
    /\ stdinBuf < PipeCap
    /\ stdinBuf' = stdinBuf + 1
    /\ stdinLeft' = stdinLeft - 1
    /\ UNCHANGED <<libVars, storeVars, pipeVars, fault, opts, pc, child, stdinRd, pipe, wopen, task, cap, nChunks, result,
                   nReturns, cb>>

\* runner.rs 99-102, write_all fails (the read end is closed): `?` returns
\* the error; the Child is dropped without being killed
WriteStdinFail ==
    /\ pc = "write_stdin"
    /\ stdinLeft > 0
    /\ ~stdinRd
    /\ result' = ErrResult("stdin")
    /\ nReturns' = nReturns + 1
    /\ pc' = "returned"
    /\ UNCHANGED <<libVars, storeVars, pipeVars, fault, opts, child, stdinBuf, stdinLeft, stdinRd, pipe, wopen, task, cap,
                   nChunks, cb>>

\* runner.rs 103-139: the prompt is written, stdin is dropped, the timeout
\* starts and its future spawns the two reader tasks
StartTimed ==
    /\ pc = "write_stdin"
    /\ stdinLeft = 0
    /\ task' = [s \in Streams |-> "running"]
    /\ pc' = "join_stdout"
    /\ UNCHANGED <<libVars, storeVars, pipeVars, fault, opts, child, stdinBuf, stdinLeft, stdinRd, pipe, wopen, cap, nChunks,
                   result, nReturns, cb>>

\* runner.rs 121-124 / 133-136: next_line yields one line that ended in a
\* line feed
ReaderLine(s) ==
    /\ task[s] = "running"
    /\ FirstNL(pipe[s]) > 0
    /\ LET k == FirstNL(pipe[s])
       IN  /\ cap' = [cap EXCEPT ![s] = @ \o StripEol(SubSeq(pipe[s], 1, k)) \o <<NL>>]
           /\ pipe' = [pipe EXCEPT ![s] = SubSeq(@, k + 1, Len(@))]
    /\ UNCHANGED <<libVars, storeVars, pipeVars, fault, opts, pc, child, stdinBuf, stdinLeft, stdinRd, wopen, task, nChunks,
                   result, nReturns, cb>>

\* runner.rs 121-126: end of file. Bytes after the last line feed are one
\* more line; then next_line yields None and the task returns its text
ReaderEof(s) ==
    /\ task[s] = "running"
    /\ ~wopen[s]
    /\ FirstNL(pipe[s]) = 0
    /\ cap' = [cap EXCEPT ![s] = IF pipe[s] = <<>> THEN @ ELSE @ \o pipe[s] \o <<NL>>]
    /\ pipe' = [pipe EXCEPT ![s] = <<>>]
    /\ task' = [task EXCEPT ![s] = "done"]
    /\ UNCHANGED <<libVars, storeVars, pipeVars, fault, opts, pc, child, stdinBuf, stdinLeft, stdinRd, wopen, nChunks, result,
                   nReturns, cb>>

\* runner.rs 121: next_line yields Err (a read error, bytes that are not
\* UTF-8): `while let Ok(Some(..))` ends and the task returns what it has
ReaderErr(s) ==
    /\ task[s] = "running"
    /\ pipe[s] # <<>>
    /\ pipe' = [pipe EXCEPT ![s] = <<>>]
    /\ task' = [task EXCEPT ![s] = "done"]
    /\ UNCHANGED <<libVars, storeVars, pipeVars, fault, opts, pc, child, stdinBuf, stdinLeft, stdinRd, wopen, cap, nChunks,
                   result, nReturns, cb>>

\* runner.rs 141
JoinStdout ==
    /\ pc = "join_stdout"
    /\ task["out"] = "done"
    /\ pc' = "join_stderr"
    /\ UNCHANGED <<libVars, storeVars, pipeVars, fault, opts, child, stdinBuf, stdinLeft, stdinRd, pipe, wopen, task, cap,
                   nChunks, result, nReturns, cb>>

\* runner.rs 142
JoinStderr ==
    /\ pc = "join_stderr"
    /\ task["err"] = "done"
    /\ pc' = "wait"
    /\ UNCHANGED <<libVars, storeVars, pipeVars, fault, opts, child, stdinBuf, stdinLeft, stdinRd, pipe, wopen, task, cap,
                   nChunks, result, nReturns, cb>>

\* the text of stderr put before the text of stdout
CombinedOutput_ErrFirst(o, e) == e \o o

\* runner.rs 150-151
CombinedOutput(o, e) == o \o e

\* success taken from the exit status alone
CompletedResult_StatusOnly(status, output, detected) ==
    [kind |-> "ok", success |-> StatusSuccess(status), output |-> output,
     timed_out |-> FALSE, exit_code |-> StatusCode(status),
     completion_detected |-> detected]

\* runner.rs 165-171
CompletedResult(status, output, detected) ==
    [kind |-> "ok", success |-> StatusSuccess(status) /\ detected, output |-> output,
     timed_out |-> FALSE, exit_code |-> StatusCode(status),
     completion_detected |-> detected]

\* runner.rs 157-162: each callback is called once, with its stream's text
CallbacksAfter ==
    IF opts.callbacks THEN [s \in Streams |-> Append(cb[s], cap[s])] ELSE cb

\* runner.rs 144-171: wait yields the exit status before the timeout; the
\* result is assembled
WaitOk ==
    /\ pc = "wait"
    /\ ChildExited
    /\ fault # "wait"
    /\ LET output == CombinedOutput(cap["out"], cap["err"])
           detected == Contains(output, opts.completion_signal)
       IN  result' = CompletedResult(child, output, detected)
    /\ cb' = CallbacksAfter
    /\ nReturns' = nReturns + 1
    /\ pc' = "returned"
    /\ UNCHANGED <<libVars, storeVars, pipeVars, fault, opts, child, stdinBuf, stdinLeft, stdinRd, pipe, wopen, task, cap,
                   nChunks>>

\* runner.rs 144-176: wait yields an error; the callbacks have run, the
\* error is returned
WaitFail ==
    /\ pc = "wait"
    /\ fault = "wait"
    /\ result' = ErrResult("wait")
    /\ cb' = CallbacksAfter
    /\ nReturns' = nReturns + 1
    /\ pc' = "returned"
    /\ UNCHANGED <<libVars, storeVars, pipeVars, fault, opts, child, stdinBuf, stdinLeft, stdinRd, pipe, wopen, task, cap,
                   nChunks>>

\* the future of runner.rs 115-145 cannot finish when polled: a reader task
\* it awaits has not returned, or the child has not exited
InnerPending ==
    LET waitPending == ~ChildExited /\ fault # "wait"
    IN  \/ pc = "join_stdout" /\ (task["out"] # "done" \/ task["err"] # "done" \/ waitPending)
        \/ pc = "join_stderr" /\ (task["err"] # "done" \/ waitPending)
        \/ pc = "wait" /\ waitPending

\* runner.rs 115, 146, 178: the deadline passes and the future, polled
\* first, is still pending
Timeout ==
    /\ InnerPending
    /\ pc' = "kill"
    /\ UNCHANGED <<libVars, storeVars, pipeVars, fault, opts, child, stdinBuf, stdinLeft, stdinRd, pipe, wopen, task, cap,
                   nChunks, result, nReturns, cb>>

\* runner.rs 182-188
TimedOutResult(output) ==
    [kind |-> "ok", success |-> FALSE, output |-> output, timed_out |-> TRUE,
     exit_code |-> None, completion_detected |-> FALSE]

\* a kill that leaves the child alone
KillChild_Spare(c) == c

\* Child::kill: SIGKILL, then the child is awaited
KillChild(c) == IF c = "running" THEN "killed" ELSE c

\* runner.rs 180-188: kill().await ends a running child and reaps it (its
\* error, when the child is gone already, is ignored); the `output` of
\* line 106 is still empty
Kill ==
    /\ pc = "kill"
    /\ child' = KillChild(child)
    /\ stdinRd' = FALSE
    /\ wopen' = [s \in Streams |-> wopen[s] /\ ~ChildRunning]
    /\ result' = TimedOutResult(<<>>)
    /\ nReturns' = nReturns + 1
    /\ pc' = "returned"
    /\ UNCHANGED <<libVars, storeVars, pipeVars, fault, opts, stdinBuf, stdinLeft, pipe, task, cap, nChunks, cb>>

\* ---- the child process: the environment of run_agent ----
\* the child reads some of its standard input
ChildReadStdin ==
    /\ ChildRunning
    /\ stdinRd
    /\ stdinBuf > 0
    /\ stdinBuf' = stdinBuf - 1
    /\ UNCHANGED <<libVars, storeVars, pipeVars, fault, opts, pc, child, stdinLeft, stdinRd, pipe, wopen, task, cap, nChunks,
                   result, nReturns, cb>>

\* the child closes its standard input
ChildCloseStdin ==
    /\ ChildRunning
    /\ stdinRd
    /\ stdinRd' = FALSE
    /\ UNCHANGED <<libVars, storeVars, pipeVars, fault, opts, pc, child, stdinBuf, stdinLeft, pipe, wopen, task, cap, nChunks,
                   result, nReturns, cb>>

\* the child writes a chunk to its standard output or standard error
ChildWrite(s, c) ==
    /\ ChildRunning
    /\ wopen[s]
    /\ task[s] # "done"
    /\ nChunks < MaxChunks
    /\ pipe' = [pipe EXCEPT ![s] = @ \o c]
    /\ nChunks' = nChunks + 1
    /\ UNCHANGED <<libVars, storeVars, pipeVars, fault, opts, pc, child, stdinBuf, stdinLeft, stdinRd, wopen, task, cap,
                   result, nReturns, cb>>

\* the child closes one of its output streams
ChildClose(s) ==
    /\ ChildRunning
    /\ wopen[s]
    /\ wopen' = [wopen EXCEPT ![s] = FALSE]
    /\ UNCHANGED <<libVars, storeVars, pipeVars, fault, opts, pc, child, stdinBuf, stdinLeft, stdinRd, pipe, task, cap,
                   nChunks, result, nReturns, cb>>

\* the child ends by itself (exit code 0 or 1, or a signal); with `inherited`
\* a descendant keeps the write ends of the output pipes open
ChildExit(status, inherited) ==
    /\ ChildRunning
    /\ child' = status
    /\ stdinRd' = FALSE
    /\ wopen' = IF inherited THEN wopen ELSE [s \in Streams |-> FALSE]
    /\ UNCHANGED <<libVars, storeVars, pipeVars, fault, opts, pc, stdinBuf, stdinLeft, pipe, task, cap, nChunks, result,
                   nReturns, cb>>

RunNext ==
    \/ DryRun
    \/ SpawnOk
    \/ SpawnFail
    \/ WriteStdin
    \/ WriteStdinFail
    \/ StartTimed
    \/ \E s \in Streams : ReaderLine(s)
    \/ \E s \in Streams : ReaderEof(s)
    \/ \E s \in Streams : ReaderErr(s)
    \/ JoinStdout
    \/ JoinStderr
    \/ WaitOk
    \/ WaitFail
    \/ Timeout
    \/ Kill
    \/ ChildReadStdin
    \/ ChildCloseStdin
    \/ \E s \in Streams, c \in Chunks : ChildWrite(s, c)
    \/ \E s \in Streams : ChildClose(s)
    \/ \E st \in ExitStatuses, inh \in BOOLEAN : ChildExit(st, inh)

\* the state store while only run_agent is looked at
StoreQuiet ==
    /\ state = [logs |-> <<>>]
    /\ now = 0
    /\ nOps = 0

\* no run_agent_with_tui, no TuiRunner
PipeQuiet ==
    /\ rpc = <<>>
    /\ side = <<>>
    /\ emitted = <<>>
    /\ bridge = <<>>
    /\ held = <<>>
    /\ aborted = <<>>
    /\ tuiChan = <<>>
    /\ bcast = <<>>
    /\ lagged = FALSE
    /\ closed = FALSE
    /\ cpc = "none"
    /\ cur = <<>>
    /\ lock = "free"
    /\ snapshot = <<>>
    /\ applied = <<>>
    /\ committed = <<>>
    /\ budget = <<>>

\* no key loop: the fields as TuiRunner::new leaves them (runner.rs 110-111)
LoopQuiet ==
    /\ scroll_offset = 0
    /\ auto_scroll = TRUE
    /\ drawn = <<>>
    /\ pane = <<>>

\* no line parsed, no item, no second state, no key loop
LibQuiet ==
    /\ srcLine = <<>>
    /\ events = <<>>
    /\ workItem = "none"
    /\ verdict = <<>>
    /\ twin = <<>>
    /\ LoopQuiet

InitRun == RunInit /\ StoreQuiet /\ PipeQuiet /\ LibQuiet

SpecRun == InitRun /\ [][RunNext]_vars

\* the async runtime runs every task that can make progress, the timer
\* fires, and a system call that is issued returns; the child is free
RunFairness ==
    /\ WF_vars(DryRun)
    /\ WF_vars(SpawnOk \/ SpawnFail)
    /\ WF_vars(WriteStdin)
    /\ WF_vars(WriteStdinFail)
    /\ WF_vars(StartTimed)
    /\ \A s \in Streams : WF_vars(ReaderLine(s))
    /\ \A s \in Streams : WF_vars(ReaderEof(s))
    /\ WF_vars(JoinStdout)
    /\ WF_vars(JoinStderr)
    /\ WF_vars(WaitOk \/ WaitFail)
    /\ WF_vars(Timeout)
    /\ WF_vars(Kill)

FairRun == SpecRun /\ RunFairness

\* ======================================================================
\* TuiState (src/src/tui/state.rs) and the events applied to it
\* ======================================================================

\* state.rs 89-91
MAX_THOUGHTS == 50
MAX_TOOLS == 20
MAX_LOGS == 500

\* state.rs 199: a last thought shorter than this absorbs the next one
MERGE_BELOW == 120

\* ---- text of thoughts ----
SP == " "
\* the code fence of Markdown, three backquotes
FENCE == "FENCE"
TOOL_PREFIX == "tool:"

\* byte length of a token
Width(tok) ==
    CASE tok = "w119" -> 119
      [] tok = "w120" -> 120
      [] tok = "[ERROR]" -> 7
      [] tok = TOOL_PREFIX -> 5
      [] tok = "code" -> 4
      [] tok = FENCE -> 3
      [] tok = "hi" -> 2
      [] tok = "ok" -> 2
      [] OTHER -> 1

RECURSIVE TextLen(_)
\* String::len
TextLen(t) == IF t = <<>> THEN 0 ELSE Width(Head(t)) + TextLen(Tail(t))

IsWs(tok) == tok \in {SP, NL, CR}

RECURSIVE TrimStart(_)
TrimStart(t) == IF t # <<>> /\ IsWs(Head(t)) THEN TrimStart(Tail(t)) ELSE t

RECURSIVE TrimEnd(_)
TrimEnd(t) ==
    IF t # <<>> /\ IsWs(t[Len(t)]) THEN TrimEnd(SubSeq(t, 1, Len(t) - 1)) ELSE t

\* str::trim
Trim(t) == TrimEnd(TrimStart(t))

\* index of the first fence of t at or after position k, 0 when none
FenceFrom(t, k) ==
    IF \E i \in k..Len(t) : t[i] = FENCE
    THEN CHOOSE i \in k..Len(t) : t[i] = FENCE /\ \A j \in k..(i - 1) : t[j] # FENCE
    ELSE 0

RECURSIVE RemoveCodeBlocks(_)
\* events.rs 40-41: every shortest span from a fence to the next fence is
\* removed; a fence that is never closed stays
RemoveCodeBlocks(t) ==
    LET i == FenceFrom(t, 1)
        j == IF i = 0 THEN 0 ELSE FenceFrom(t, i + 1)
    IN  IF j = 0 THEN t
        ELSE SubSeq(t, 1, i - 1) \o RemoveCodeBlocks(SubSeq(t, j + 1, Len(t)))

RECURSIVE CollapseWs(_)
\* events.rs 50: split_whitespace joined by one space (t is trimmed)
CollapseWs(t) ==
    IF t = <<>> THEN <<>>
    ELSE IF IsWs(Head(t))
         THEN IF Tail(t) # <<>> /\ IsWs(Head(Tail(t)))
              THEN CollapseWs(Tail(t))
              ELSE <<SP>> \o CollapseWs(Tail(t))
         ELSE <<Head(t)>> \o CollapseWs(Tail(t))

\* events.rs 33-58: an Option<String>
sanitize_assistant_text(text) ==
    LET t1 == Trim(text)
        t2 == Trim(RemoveCodeBlocks(t1))
        t3 == CollapseWs(t2)
    IN  IF t1 = <<>> THEN None
        ELSE IF t2 = <<>> THEN None
        ELSE IF Head(t3) = TOOL_PREFIX THEN None
        ELSE Some(t3)

\* runner.rs 143, 146: format!("[ERROR] {}", e)
ErrorText(e) == <<"[ERROR]", SP>> \o e

\* ---- TuiState ----
\* state.rs 53-62
ItemStateFrom(item) ==
    [id |-> item.id, state |-> item.state, title |-> item.title, current_story_id |-> None]

\* state.rs 35-42
DefaultActivity == [thoughts |-> <<>>, tools |-> <<>>]

\* state.rs 94-121
TuiStateNew(items, t) ==
    [current_item |-> None,
     current_phase |-> None,
     current_iteration |-> 0,
     max_iterations |-> 100,
     current_story |-> None,
     items |-> [i \in 1..Len(items) |-> ItemStateFrom(items[i])],
     completed_count |-> Cardinality({i \in 1..Len(items) : items[i].state = "done"}),
     total_count |-> Len(items),
     start_time |-> t,
     logs |-> <<>>,
     show_logs |-> FALSE,
     activity_by_item |-> [id \in {items[i].id : i \in 1..Len(items)} |-> DefaultActivity]]

\* a setter that also forgets the phase
with_current_item_ResetPhase(st, item) ==
    [st EXCEPT !.current_item = item, !.current_phase = <<>>]

\* state.rs 126-129
with_current_item(st, item) == [st EXCEPT !.current_item = item]

\* state.rs 132-135
with_current_phase(st, phase) == [st EXCEPT !.current_phase = phase]

\* state.rs 138-141
with_iteration(st, iteration) == [st EXCEPT !.current_iteration = iteration]

\* state.rs 150-155: the first item with that id
with_item_state(st, item_id, item_state) ==
    IF \E i \in 1..Len(st.items) : st.items[i].id = item_id
    THEN LET k == CHOOSE i \in 1..Len(st.items) :
                    /\ st.items[i].id = item_id
                    /\ \A j \in 1..(i - 1) : st.items[j].id # item_id
         IN  [st EXCEPT !.items[k].state = item_state]
    ELSE st

\* state.rs 158-161
with_completed_count(st, count) == [st EXCEPT !.completed_count = count]

\* a buffer that gives up its newest entries
DropFirst_Newest(q, n) == SubSeq(q, 1, Len(q) - n)

\* Vec::drain(0..n) / Vec::remove(0): the sequence without its first n entries
DropFirst(q, n) == SubSeq(q, n + 1, Len(q))

\* logs appended, and one line at most dropped
with_logs_DropOne(st, logs) ==
    LET all == st.logs \o logs
    IN  [st EXCEPT !.logs = IF Len(all) > MAX_LOGS THEN DropFirst(all, 1) ELSE all]

\* state.rs 164-171
with_logs(st, logs) ==
    LET all == st.logs \o logs
    IN  [st EXCEPT !.logs = IF Len(all) > MAX_LOGS
                             THEN DropFirst(all, Len(all) - MAX_LOGS) ELSE all]

\* state.rs 174-180
with_log(st, log) ==
    LET all == Append(st.logs, log)
    IN  [st EXCEPT !.logs = IF Len(all) > MAX_LOGS THEN DropFirst(all, 1) ELSE all]

\* state.rs 183-186
with_show_logs(st, show) == [st EXCEPT !.show_logs = show]

\* a merge that also takes a last thought of the threshold's length
PushThought_AtThreshold(thoughts, thought) ==
    IF thoughts # <<>>
    THEN LET last == thoughts[Len(thoughts)]
         IN  IF TextLen(last) <= MERGE_BELOW
             THEN Append(SubSeq(thoughts, 1, Len(thoughts) - 1), last \o <<SP>> \o thought)
             ELSE Append(thoughts, thought)
    ELSE Append(thoughts, thought)

\* state.rs 198-208: the thoughts after the merge or the push
PushThought(thoughts, thought) ==
    IF thoughts # <<>>
    THEN LET last == thoughts[Len(thoughts)]
         IN  IF TextLen(last) < MERGE_BELOW
             THEN Append(SubSeq(thoughts, 1, Len(thoughts) - 1), last \o <<SP>> \o thought)
             ELSE Append(thoughts, thought)
    ELSE Append(thoughts, thought)

\* a thought buffer that is never trimmed
LimitThoughts_Keep(thoughts) == thoughts

\* state.rs 211-213
LimitThoughts(thoughts) ==
    IF Len(thoughts) > MAX_THOUGHTS THEN DropFirst(thoughts, 1) ELSE thoughts

\* state.rs 195-215
append_thought(st, item_id, thought) ==
    IF item_id \in DOMAIN st.activity_by_item
    THEN [st EXCEPT !.activity_by_item[item_id].thoughts =
                        LimitThoughts(PushThought(@, thought))]
    ELSE st

\* state.rs 221-223
LimitTools(tools) == IF Len(tools) > MAX_TOOLS THEN DropFirst(tools, 1) ELSE tools

\* an append that opens an activity log for a run the state does not know
append_tool_Create(st, item_id, tool) ==
    IF item_id \in DOMAIN st.activity_by_item
    THEN [st EXCEPT !.activity_by_item[item_id].tools = LimitTools(Append(@, tool))]
    ELSE [st EXCEPT !.activity_by_item =
              [id \in DOMAIN @ \cup {item_id} |->
                 IF id = item_id THEN [thoughts |-> <<>>, tools |-> <<tool>>] ELSE @[id]]]

\* state.rs 218-225
append_tool(st, item_id, tool) ==
    IF item_id \in DOMAIN st.activity_by_item
    THEN [st EXCEPT !.activity_by_item[item_id].tools = LimitTools(Append(@, tool))]
    ELSE st

\* an update that records no finish time
UpdatedTool_NoFinish(tool, status, res, t) ==
    [tool EXCEPT !.status = status, !.result = res]

\* state.rs 237-241: the entry after the update
UpdatedTool(tool, status, res, t) ==
    [tool EXCEPT !.status = status,
                 !.result = res,
                 !.finished_at = IF status # "Running" THEN Some(t) ELSE @]

\* an update that adds an entry when none has that tool_use_id
update_tool_status_Insert(st, item_id, tool_use_id, status, res, t) ==
    append_tool(st, item_id,
                [tool_use_id |-> tool_use_id, tool_name |-> "", input |-> "",
                 status |-> status, result |-> res, started_at |-> t,
                 finished_at |-> <<t>>])

\* an update of the newest entry with that tool_use_id
update_tool_status_Latest(st, item_id, tool_use_id, status, res, t) ==
    IF item_id \in DOMAIN st.activity_by_item
    THEN LET tools == st.activity_by_item[item_id].tools
         IN  IF \E i \in 1..Len(tools) : tools[i].tool_use_id = tool_use_id
             THEN LET k == CHOOSE i \in 1..Len(tools) :
                             /\ tools[i].tool_use_id = tool_use_id
                             /\ \A j \in (i + 1)..Len(tools) :
                                  tools[j].tool_use_id # tool_use_id
                  IN  [st EXCEPT !.activity_by_item[item_id].tools[k] =
                                      UpdatedTool(@, status, res, t)]
             ELSE st
    ELSE st

\* state.rs 228-244: the first entry with that tool_use_id
update_tool_status(st, item_id, tool_use_id, status, res, t) ==
    IF item_id \in DOMAIN st.activity_by_item
    THEN LET tools == st.activity_by_item[item_id].tools
         IN  IF \E i \in 1..Len(tools) : tools[i].tool_use_id = tool_use_id
             THEN LET k == CHOOSE i \in 1..Len(tools) :
                             /\ tools[i].tool_use_id = tool_use_id
                             /\ \A j \in 1..(i - 1) : tools[j].tool_use_id # tool_use_id
                  IN  [st EXCEPT !.activity_by_item[item_id].tools[k] =
                                      UpdatedTool(@, status, res, t)]
             ELSE st
    ELSE st

\* an entry whose name depends on the time of the call
NewToolExecution_TimedName(ev, t) ==
    [tool_use_id |-> ev.tool_use_id, tool_name |-> IF t = 0 THEN ev.tool_name ELSE "late",
     input |-> ev.input, status |-> "Running", result |-> None, started_at |-> t,
     finished_at |-> None]

\* runner.rs 127-135
NewToolExecution(ev, t) ==
    [tool_use_id |-> ev.tool_use_id, tool_name |-> ev.tool_name, input |-> ev.input,
     status |-> "Running", result |-> None, started_at |-> t, finished_at |-> None]

\* a handler whose ToolError only updates the tool
handle_agent_event_QuietToolError(st, item_id, ev, t) ==
    CASE ev.kind = "AssistantText" ->
            LET cleaned == sanitize_assistant_text(ev.text)
            IN  IF cleaned # None THEN append_thought(st, item_id, cleaned[1]) ELSE st
      [] ev.kind = "ToolStarted" ->
            append_tool(st, item_id, NewToolExecution(ev, t))
      [] ev.kind = "ToolResult" ->
            update_tool_status(st, item_id, ev.tool_use_id, "Completed", Some(ev.result), t)
      [] ev.kind = "ToolError" ->
            update_tool_status(st, item_id, ev.tool_use_id, "Error", None, t)
      [] ev.kind = "Error" ->
            append_thought(st, item_id, ErrorText(ev.message))
      [] OTHER -> st

\* runner.rs 115-152; t is what Utc::now() returns during the call
handle_agent_event(st, item_id, ev, t) ==
    CASE ev.kind = "AssistantText" ->
            LET cleaned == sanitize_assistant_text(ev.text)
            IN  IF cleaned # None THEN append_thought(st, item_id, cleaned[1]) ELSE st
      [] ev.kind = "ToolStarted" ->
            append_tool(st, item_id, NewToolExecution(ev, t))
      [] ev.kind = "ToolResult" ->
            update_tool_status(st, item_id, ev.tool_use_id, "Completed", Some(ev.result), t)
      [] ev.kind = "ToolError" ->
            append_thought(
                update_tool_status(st, item_id, ev.tool_use_id, "Error", None, t),
                item_id, ErrorText(ev.error))
      [] ev.kind = "Error" ->
            append_thought(st, item_id, ErrorText(ev.message))
      [] OTHER -> st

\* runner.rs 73-101: one TuiUpdate applied by the consumer task
ApplyUpdate(st, u, t) ==
    CASE u.type = "SetCurrentItem" -> with_current_item(st, u.item)
      [] u.type = "SetCurrentPhase" -> with_current_phase(st, u.phase)
      [] u.type = "SetIteration" -> with_iteration(st, u.iteration)
      [] u.type = "SetCurrentStory" -> st
      [] u.type = "SetItemState" -> with_item_state(st, u.item_id, u.item_state)
      [] u.type = "SetCompletedCount" -> with_completed_count(st, u.count)
      [] u.type = "AppendLogs" -> with_logs(st, u.logs)
      [] u.type = "ToggleLogs" -> with_show_logs(st, u.show)
      [] u.type = "AgentEvent" -> handle_agent_event(st, u.item_id, u.event, t)

\* ---- the updates and calls the state is driven with ----
Items ==
    << [id |-> "i1", state |-> "idea", title |-> "first"],
       [id |-> "i2", state |-> "done", title |-> "second"] >>

AssistantText(text) == [kind |-> "AssistantText", text |-> text]
ToolStarted(id, name, input) ==
    [kind |-> "ToolStarted", tool_use_id |-> id, tool_name |-> name, input |-> input]
ToolResult(id, res) == [kind |-> "ToolResult", tool_use_id |-> id, result |-> res]
ToolError(id, error) == [kind |-> "ToolError", tool_use_id |-> id, error |-> error]
ErrorEvent(message) == [kind |-> "Error", message |-> message]
RunResult == [kind |-> "RunResult"]

\* every event published under the id of the first item
AgentEventUpdate_FirstItem(item_id, ev) ==
    [type |-> "AgentEvent", item_id |-> "i1", event |-> ev]

\* agent_helper.rs 33: TuiUpdate::AgentEvent(item_id, event)
AgentEventUpdate(item_id, ev) == [type |-> "AgentEvent", item_id |-> item_id, event |-> ev]

\* a thought too long to absorb the next one, and texts around the threshold
LongText == <<"w120">>
Texts ==
    { <<"hi">>, <<"w119">>, LongText,
      <<SP, "hi", SP, NL, "ok", NL>>,
      <<"hi", FENCE, "code", FENCE, "ok", FENCE>>,
      <<TOOL_PREFIX, SP, "ok">>,
      <<SP, NL>>,
      <<FENCE, "code", FENCE>> }

\* the lines 1..n
Lines(n) == [i \in 1..n |-> i]

StoreEvents ==
    {AgentEventUpdate("i1", AssistantText(t)) : t \in Texts}
    \cup {AgentEventUpdate("i1", ToolStarted(id, "read", "in")) : id \in {"t0", "t1"}}
    \cup {AgentEventUpdate("i1", ToolResult("t0", "out")),
          AgentEventUpdate("i1", ToolResult("t1", "null")),
          AgentEventUpdate("i1", ToolError("t0", <<"ok">>)),
          AgentEventUpdate("i1", ErrorEvent(<<"w119">>)),
          AgentEventUpdate("i1", RunResult),
          AgentEventUpdate("i2", AssistantText(<<"hi">>)),
          AgentEventUpdate("i2", ToolStarted("t0", "read", "in")),
          AgentEventUpdate("ix", AssistantText(<<"hi">>)),
          AgentEventUpdate("ix", ToolStarted("t0", "read", "in")),
          AgentEventUpdate("ix", ToolError("t0", <<"ok">>))}

StoreCommands ==
    {[type |-> "SetCurrentItem", item |-> Some("i1")],
     [type |-> "SetCurrentPhase", phase |-> Some("plan")],
     [type |-> "SetIteration", iteration |-> 3],
     [type |-> "SetCurrentStory", story |-> Some("s1")],
     [type |-> "SetItemState", item_id |-> "i1", item_state |-> "done"],
     [type |-> "SetItemState", item_id |-> "ix", item_state |-> "done"],
     [type |-> "SetCompletedCount", count |-> 2],
     [type |-> "AppendLogs", logs |-> <<701, 702>>],
     [type |-> "AppendLogs", logs |-> Lines(MAX_LOGS - 1)],
     [type |-> "ToggleLogs", show |-> TRUE]}

StoreUpdates == StoreEvents \cup StoreCommands

RECURSIVE Repeat(_, _, _)
\* u applied n times in a row (once an application changes nothing, the
\* later ones change nothing either)
Repeat(st, u, n) ==
    IF n = 0 THEN st
    ELSE LET next == ApplyUpdate(st, u, 0)
         IN  IF next = st THEN st ELSE Repeat(next, u, n - 1)

StoreInit ==
    /\ now = 0
    /\ state = TuiStateNew(Items, 0)
    /\ nOps = 0

\* a run emits MAX_THOUGHTS - 1 long thoughts, applied back to back
BurstThoughts ==
    /\ nOps = 0
    /\ now = 0
    /\ state.activity_by_item["i1"].thoughts = <<>>
    /\ state' = Repeat(state, AgentEventUpdate("i1", AssistantText(LongText)),
                       MAX_THOUGHTS - 1)
    /\ cur' = <<AgentEventUpdate("i1", AssistantText(LongText))>>
    /\ UNCHANGED <<libVars, runVars, runsVars, tuiRest, now, nOps>>

\* a run starts MAX_TOOLS - 1 tools, applied back to back
BurstTools ==
    /\ nOps = 0
    /\ now = 0
    /\ state.activity_by_item["i1"].tools = <<>>
    /\ state' = Repeat(state, AgentEventUpdate("i1", ToolStarted("t0", "read", "in")),
                       MAX_TOOLS - 1)
    /\ cur' = <<AgentEventUpdate("i1", ToolStarted("t0", "read", "in"))>>
    /\ UNCHANGED <<libVars, runVars, runsVars, tuiRest, now, nOps>>

\* runner.rs 71-101: the consumer takes one update and applies it
Apply(u) ==
    /\ nOps < MaxOps
    /\ cur' = <<u>>
    /\ state' = ApplyUpdate(state, u, now)
    /\ nOps' = nOps + 1
    /\ UNCHANGED <<libVars, runVars, runsVars, tuiRest, now>>

\* state.rs 174: a direct call of with_log
CallWithLog(line) ==
    /\ nOps < MaxOps
    /\ state' = with_log(state, line)
    /\ cur' = <<>>
    /\ nOps' = nOps + 1
    /\ UNCHANGED <<libVars, runVars, runsVars, tuiRest, now>>

\* state.rs 195: a direct call of append_thought, with any text
CallAppendThought(item_id, text) ==
    /\ nOps < MaxOps
    /\ state' = append_thought(state, item_id, text)
    /\ cur' = <<>>
    /\ nOps' = nOps + 1
    /\ UNCHANGED <<libVars, runVars, runsVars, tuiRest, now>>

\* state.rs 218: a direct call of append_tool, with any entry
CallAppendTool(item_id, tool) ==
    /\ nOps < MaxOps
    /\ state' = append_tool(state, item_id, tool)
    /\ cur' = <<>>
    /\ nOps' = nOps + 1
    /\ UNCHANGED <<libVars, runVars, runsVars, tuiRest, now>>

\* time passes
Tick ==
    /\ now < MaxClock
    /\ now' = now + 1
    /\ UNCHANGED <<libVars, runVars, runsVars, tuiVars, state, nOps>>

StoreNext ==
    \/ BurstThoughts
    \/ BurstTools
    \/ \E u \in StoreUpdates : Apply(u)
    \/ CallWithLog(703)
    \/ CallAppendThought("i1", <<>>)
    \/ CallAppendTool("i1", NewToolExecution(ToolStarted("t1", "write", "in"), now))
    \/ Tick

\* run_agent while only the state store is looked at
RunQuiet ==
    /\ opts = [dry_run |-> TRUE]
    /\ pc = "idle"
    /\ child = "none"
    /\ stdinBuf = 0
    /\ stdinLeft = 0
    /\ stdinRd = FALSE
    /\ pipe = <<>>
    /\ wopen = <<>>
    /\ task = <<>>
    /\ cap = <<>>
    /\ nChunks = 0
    /\ result = NoResult
    /\ nReturns = 0
    /\ fault = "none"
    /\ cb = <<>>

InitStore == StoreInit /\ RunQuiet /\ PipeQuiet /\ LibQuiet

SpecStore == InitStore /\ [][StoreNext]_vars

\* ======================================================================
\* run_agent_with_tui (src/src/tui/agent_helper.rs) and the consumer task
\* and key loop of TuiRunner (src/src/tui/runner.rs)
\* ======================================================================

\* a run is known by the id of its item
Runs == {"i1", "i2"}

\* agent_helper.rs 26: capacity of the channel of AgentEvents
AGENT_EVENT_CAPACITY == 100

\* agent_helper.rs 59, 86: capacity of the mpsc channel the callers create
TUI_UPDATE_CAPACITY == 100

\* runner.rs 65: capacity asked of the broadcast channel
BROADCAST_CAPACITY == 100

RECURSIVE PowerOfTwoFrom(_, _)
PowerOfTwoFrom(n, k) == IF k >= n THEN k ELSE PowerOfTwoFrom(n, 2 * k)

\* tokio's broadcast channel keeps the next power of two of slots
BroadcastSlots == PowerOfTwoFrom(BROADCAST_CAPACITY, 1)

\* what a run may publish
RunEvents(r) ==
    IF r = "i1"
    THEN {AssistantText(<<"hi">>), ToolStarted("t1", "read", "in"), ToolError("t1", <<"ok">>)}
    ELSE {AssistantText(<<"ok">>)}

\* what the other producers may publish
OtherUpdates == {[type |-> "SetIteration", iteration |-> 3]}

\* a channel that hands the newest entry out first
SendBack_Front(q, x) == <<x>> \o q

\* mpsc and broadcast channels are queues: send puts an update at the back
SendBack(q, x) == Append(q, x)

PipeInit ==
    /\ rpc = [r \in Runs |-> "idle"]
    /\ side = [r \in Runs |-> <<>>]
    /\ emitted = [r \in Runs |-> <<>>]
    /\ bridge = [r \in Runs |-> "none"]
    /\ held = [r \in Runs |-> <<>>]
    /\ aborted = [r \in Runs |-> FALSE]
    /\ tuiChan = <<>>
    /\ bcast = <<>>
    /\ lagged = FALSE
    /\ closed = FALSE
    /\ cpc = "recv"
    /\ cur = <<>>
    /\ lock = "free"
    /\ snapshot = <<>>
    /\ applied = [r \in Runs |-> <<>>]
    /\ committed = TuiStateNew(Items, 0)
    /\ budget = [emit |-> MaxEmit, aside |-> MaxAside]
    /\ state = TuiStateNew(Items, 0)
    /\ now = 0
    /\ nOps = 0

\* agent_helper.rs 26-44: the channel is made, the forwarder is spawned,
\* run_agent is called with the sender
StartRun(r) ==
    /\ rpc[r] = "idle"
    /\ ~closed
    /\ rpc' = [rpc EXCEPT ![r] = "running"]
    /\ bridge' = [bridge EXCEPT ![r] = "recv"]
    /\ UNCHANGED <<libVars, runVars, storeVars, tuiVars, side, emitted, held, aborted>>

\* the runner publishes an event it has extracted from a line of output
RunEmit(r, ev) ==
    /\ rpc[r] = "running"
    /\ budget.emit > 0
    /\ Len(side[r]) < AGENT_EVENT_CAPACITY
    /\ side' = [side EXCEPT ![r] = SendBack(@, ev)]
    /\ emitted' = [emitted EXCEPT ![r] = Append(@, ev)]
    /\ budget' = [budget EXCEPT !.emit = @ - 1]
    /\ UNCHANGED <<libVars, runVars, storeVars, rpc, bridge, held, aborted, tuiChan, bcast, lagged,
                   closed, cpc, cur, lock, snapshot, applied, committed>>

\* agent_helper.rs 44-49: run_agent returns (a result or an error) and its
\* options, and the sender in them, are dropped; with no await in between
\* the forwarder is aborted and the outcome is returned
RunReturn(r) ==
    /\ rpc[r] = "running"
    /\ rpc' = [rpc EXCEPT ![r] = "returned"]
    /\ aborted' = [aborted EXCEPT ![r] = TRUE]
    /\ UNCHANGED <<libVars, runVars, storeVars, tuiVars, side, emitted, bridge, held>>

\* agent_helper.rs 32: recv yields the oldest event
BridgeRecv(r) ==
    /\ bridge[r] = "recv"
    /\ side[r] # <<>>
    /\ held' = [held EXCEPT ![r] = <<Head(side[r])>>]
    /\ side' = [side EXCEPT ![r] = Tail(@)]
    /\ bridge' = [bridge EXCEPT ![r] = "send"]
    /\ UNCHANGED <<libVars, runVars, storeVars, tuiVars, rpc, emitted, aborted>>

\* agent_helper.rs 32: recv yields None (no event left, the sender is
\* dropped): the loop and the task end
BridgeEnd(r) ==
    /\ bridge[r] = "recv"
    /\ side[r] = <<>>
    /\ rpc[r] = "returned"
    /\ bridge' = [bridge EXCEPT ![r] = "done"]
    /\ UNCHANGED <<libVars, runVars, storeVars, tuiVars, rpc, side, emitted, held, aborted>>

\* agent_helper.rs 33: the event goes to the update stream under the id of
\* the run; on a closed stream send fails and the failure is ignored
BridgeSend(r) ==
    /\ bridge[r] = "send"
    /\ closed \/ Len(tuiChan) < TUI_UPDATE_CAPACITY
    /\ tuiChan' = IF closed THEN tuiChan
                  ELSE SendBack(tuiChan, AgentEventUpdate(r, held[r][1]))
    /\ held' = [held EXCEPT ![r] = <<>>]
    /\ bridge' = [bridge EXCEPT ![r] = "recv"]
    /\ UNCHANGED <<libVars, runVars, storeVars, rpc, side, emitted, aborted, bcast, lagged, closed,
                   cpc, cur, lock, snapshot, applied, committed, budget>>

\* agent_helper.rs 47: the aborted task is dropped where it awaits
BridgeCancel(r) ==
    /\ aborted[r]
    /\ bridge[r] \in {"recv", "send"}
    /\ bridge' = [bridge EXCEPT ![r] = "cancelled"]
    /\ held' = [held EXCEPT ![r] = <<>>]
    /\ UNCHANGED <<libVars, runVars, storeVars, tuiVars, rpc, side, emitted, aborted>>

\* a send on the broadcast channel never waits: a full channel overwrites
\* its oldest update and the receiver has lagged
BroadcastSend(u) ==
    IF Len(bcast) < BroadcastSlots
    THEN /\ bcast' = SendBack(bcast, u)
         /\ UNCHANGED lagged
    ELSE /\ bcast' = SendBack(Tail(bcast), u)
         /\ lagged' = TRUE

\* runner.rs 160-162: a producer that holds a sender of the broadcast
\* channel publishes an update
OtherSend(u) ==
    /\ ~closed
    /\ budget.aside > 0
    /\ BroadcastSend(u)
    /\ budget' = [budget EXCEPT !.aside = @ - 1]
    /\ UNCHANGED <<libVars, runVars, storeVars, runsVars, tuiChan, closed, cpc, cur, lock,
                   snapshot, applied, committed>>

\* the broadcast channel after n sends of u in a row: the channel keeps
\* the newest BroadcastSlots updates
QueueAfter(q, u, n) ==
    LET all == q \o [i \in 1..n |-> u]
    IN  IF Len(all) > BroadcastSlots
        THEN SubSeq(all, Len(all) - BroadcastSlots + 1, Len(all)) ELSE all

\* runner.rs 160-162: a producer that holds a sender of the broadcast
\* channel publishes one update more than the channel has slots, back to
\* back (send does not await): the oldest is overwritten before the
\* consumer has received it
OtherFlood(u) ==
    /\ ~closed
    /\ budget.aside > 0
    /\ bcast' = QueueAfter(bcast, u, BroadcastSlots + 1)
    /\ lagged' = TRUE
    /\ budget' = [budget EXCEPT !.aside = @ - 1]
    /\ UNCHANGED <<libVars, runVars, storeVars, runsVars, tuiChan, closed, cpc, cur, lock,
                   snapshot, applied, committed>>

\* the update stream of the bridges reaches the broadcast channel of the
\* TuiRunner
Relay ==
    /\ tuiChan # <<>>
    /\ tuiChan' = Tail(tuiChan)
    /\ BroadcastSend(Head(tuiChan))
    /\ UNCHANGED <<libVars, runVars, storeVars, runsVars, closed, cpc, cur, lock, snapshot, applied,
                   committed, budget>>

\* every run has returned and every sender of the stream is dropped
DropSenders ==
    /\ ~closed
    /\ \A r \in Runs : rpc[r] = "returned"
    /\ tuiChan = <<>>
    /\ closed' = TRUE
    /\ UNCHANGED <<libVars, runVars, storeVars, runsVars, tuiChan, bcast, lagged, cpc, cur, lock,
                   snapshot, applied, committed, budget>>

\* runner.rs 71: recv yields the oldest update, or an error (the receiver
\* lagged, or the channel is closed and empty) that ends the loop
ConsumerRecv ==
    /\ cpc = "recv"
    /\ lagged \/ bcast # <<>> \/ closed
    /\ IF ~lagged /\ bcast # <<>>
       THEN /\ cur' = <<Head(bcast)>>
            /\ bcast' = Tail(bcast)
            /\ cpc' = "apply"
       ELSE /\ cpc' = "exited"
            /\ UNCHANGED <<libVars, cur, bcast>>
    /\ UNCHANGED <<libVars, runVars, storeVars, runsVars, tuiChan, lagged, closed, lock, snapshot,
                   applied, committed, budget>>

IsToolError(u) == u.type = "AgentEvent" /\ u.event.kind = "ToolError"

\* get_state that does not wait for the lock
LockFree_NoWait == TRUE

\* Mutex::lock succeeds
LockFree == lock = "free"

AppliedAfter(u) ==
    IF u.type = "AgentEvent" /\ u.item_id \in Runs
    THEN [applied EXCEPT ![u.item_id] = Append(@, u.event)]
    ELSE applied

\* runner.rs 72-101: the lock is taken and the update is applied; a
\* ToolError is two writes (runner.rs 142, 143), this is the first
ConsumerApply ==
    /\ cpc = "apply"
    /\ LockFree
    /\ LET u == cur[1]
       IN  /\ IF IsToolError(u)
              THEN /\ state' = update_tool_status(state, u.item_id, u.event.tool_use_id,
                                                  "Error", None, now)
                   /\ lock' = "consumer"
                   /\ cpc' = "apply2"
                   /\ UNCHANGED cur
              ELSE /\ state' = ApplyUpdate(state, u, now)
                   /\ lock' = "free"
                   /\ cpc' = "recv"
                   /\ cur' = <<>>
           /\ committed' = ApplyUpdate(committed, u, now)
           /\ applied' = AppliedAfter(u)
    /\ UNCHANGED <<libVars, runVars, now, nOps, runsVars, tuiChan, bcast, lagged, closed, snapshot,
                   budget>>

\* runner.rs 143: the second write of a ToolError; the guard is dropped at
\* the end of the loop body
ConsumerApply2 ==
    /\ cpc = "apply2"
    /\ state' = append_thought(state, cur[1].item_id, ErrorText(cur[1].event.error))
    /\ lock' = "free"
    /\ cpc' = "recv"
    /\ cur' = <<>>
    /\ UNCHANGED <<libVars, runVars, now, nOps, runsVars, tuiChan, bcast, lagged, closed, snapshot,
                   applied, committed, budget>>

\* runner.rs 155-157, called by the render loop at runner.rs 197
GetState ==
    /\ budget.aside > 0
    /\ ~closed
    /\ LockFree
    /\ snapshot' = <<state>>
    /\ budget' = [budget EXCEPT !.aside = @ - 1]
    /\ UNCHANGED <<libVars, runVars, storeVars, runsVars, tuiChan, bcast, lagged, closed, cpc, cur,
                   lock, applied, committed>>

\* runner.rs 251-254: the key loop, on 'l', takes the lock and replaces
\* the state
KeyToggleLogs ==
    /\ budget.aside > 0
    /\ ~closed
    /\ LockFree
    /\ state' = with_show_logs(state, ~state.show_logs)
    /\ committed' = with_show_logs(committed, ~committed.show_logs)
    /\ budget' = [budget EXCEPT !.aside = @ - 1]
    /\ UNCHANGED <<libVars, runVars, now, nOps, runsVars, tuiChan, bcast, lagged, closed, cpc, cur,
                   lock, snapshot, applied>>

PipeNext ==
    \/ \E r \in Runs : StartRun(r)
    \/ \E r \in Runs : \E ev \in RunEvents(r) : RunEmit(r, ev)
    \/ \E r \in Runs : RunReturn(r)
    \/ \E r \in Runs : BridgeRecv(r)
    \/ \E r \in Runs : BridgeEnd(r)
    \/ \E r \in Runs : BridgeSend(r)
    \/ \E r \in Runs : BridgeCancel(r)
    \/ \E u \in OtherUpdates : OtherSend(u)
    \/ Relay
    \/ DropSenders
    \/ ConsumerRecv
    \/ ConsumerApply
    \/ ConsumerApply2
    \/ GetState
    \/ KeyToggleLogs

InitPipe == PipeInit /\ RunQuiet /\ LibQuiet

SpecPipe == InitPipe /\ [][PipeNext]_vars

\* the pipeline with a producer that may flood the broadcast channel
FloodNext ==
    \/ PipeNext
    \/ \E u \in OtherUpdates : OtherFlood(u)

SpecFlood == InitPipe /\ [][FloodNext]_vars

\* ======================================================================
\* Several calls of run_agent_with_tui at once, one per run, each calling
\* run_agent (src/src/agent/runner.rs), beside the consumer task. Each call
\* has its own locals: here pc, child, cap and result hold one value per
\* run. run_agent is given no event channel and publishes no event.
\* ======================================================================

\* the completion signal of the configuration
AgentSignal == <<"D">>

\* what a child has written when it ends: the completion signal, a line
\* with a well-formed assistant_text tag, or neither
AgentOutputs ==
    {<<"D", NL>>, <<"x", NL>>, <<"D", "<assistant_text>", "hi", "</assistant_text>", NL>>}

AgentsInit ==
    /\ opts \in [Runs -> [dry_run : BOOLEAN]]
    /\ pc = [r \in Runs |-> "start"]
    /\ child = [r \in Runs |-> "none"]
    /\ cap = [r \in Runs |-> <<>>]
    /\ result = [r \in Runs |-> NoResult]
    /\ stdinBuf = 0
    /\ stdinLeft = 0
    /\ stdinRd = FALSE
    /\ pipe = <<>>
    /\ wopen = <<>>
    /\ task = <<>>
    /\ nChunks = 0
    /\ nReturns = 0
    /\ fault = "none"
    /\ cb = <<>>

\* what run_agent of the runs leaves alone in every step
agentRest == <<opts, stdinBuf, stdinLeft, stdinRd, pipe, wopen, task, nChunks, nReturns,
               fault, cb>>

\* a run_agent that takes no call for a dry run
IsDryRun_Never(o) == FALSE

\* runner.rs 76: the test of the dry_run option
IsDryRun(o) == o.dry_run

\* runner.rs 76-84: the dry run of run r returns the canned result
AgentDryRun(r) ==
    /\ rpc[r] = "running"
    /\ pc[r] = "start"
    /\ IsDryRun(opts[r])
    /\ result' = [result EXCEPT ![r] = DryRunResult]
    /\ pc' = [pc EXCEPT ![r] = "returned"]
    /\ UNCHANGED <<libVars, agentRest, child, cap, storeVars, pipeVars>>

\* runner.rs 86-115: the child of run r is spawned, the (empty) prompt is
\* written and the timed read-and-wait starts
AgentSpawn(r) ==
    /\ rpc[r] = "running"
    /\ pc[r] = "start"
    /\ ~IsDryRun(opts[r])
    /\ child' = [child EXCEPT ![r] = "running"]
    /\ pc' = [pc EXCEPT ![r] = "timed"]
    /\ UNCHANGED <<libVars, agentRest, cap, result, storeVars, pipeVars>>

\* the child of run r writes its output and ends
AgentChildExit(r, status, out) ==
    /\ child[r] = "running"
    /\ child' = [child EXCEPT ![r] = status]
    /\ cap' = [cap EXCEPT ![r] = out]
    /\ UNCHANGED <<libVars, agentRest, pc, result, storeVars, pipeVars>>

\* runner.rs 141-171: both readers are joined and wait yields the status of
\* the run's own child before the deadline
AgentComplete(r) ==
    /\ pc[r] = "timed"
    /\ child[r] \in ExitStatuses
    /\ result' = [result EXCEPT
                    ![r] = CompletedResult(child[r], cap[r], Contains(cap[r], AgentSignal))]
    /\ pc' = [pc EXCEPT ![r] = "returned"]
    /\ UNCHANGED <<libVars, agentRest, child, cap, storeVars, pipeVars>>

\* runner.rs 115, 178: the deadline of run r passes before its readers are
\* joined and its wait has returned
AgentTimeout(r) ==
    /\ pc[r] = "timed"
    /\ pc' = [pc EXCEPT ![r] = "kill"]
    /\ UNCHANGED <<libVars, agentRest, child, cap, result, storeVars, pipeVars>>

\* all children killed at once
KilledBy_Everyone(r, ch) == [o \in DOMAIN ch |-> KillChild(ch[o])]

\* runner.rs 180: child.kill() on the `child` local of the call
KilledBy(r, ch) == [ch EXCEPT ![r] = KillChild(@)]

\* runner.rs 178-189: the timeout branch of run r
AgentKill(r) ==
    /\ pc[r] = "kill"
    /\ child' = KilledBy(r, child)
    /\ result' = [result EXCEPT ![r] = TimedOutResult(<<>>)]
    /\ pc' = [pc EXCEPT ![r] = "returned"]
    /\ UNCHANGED <<libVars, agentRest, cap, storeVars, pipeVars>>

\* agent_helper.rs 44-49: run_agent of run r has returned its outcome
AgentReturn(r) ==
    /\ pc[r] = "returned"
    /\ RunReturn(r)

AgentsNext ==
    \/ \E r \in Runs : StartRun(r)
    \/ \E r \in Runs : AgentDryRun(r)
    \/ \E r \in Runs : AgentSpawn(r)
    \/ \E r \in Runs, st \in ExitStatuses, out \in AgentOutputs : AgentChildExit(r, st, out)
    \/ \E r \in Runs : AgentComplete(r)
    \/ \E r \in Runs : AgentTimeout(r)
    \/ \E r \in Runs : AgentKill(r)
    \/ \E r \in Runs : AgentReturn(r)
    \/ \E r \in Runs : BridgeEnd(r)
    \/ \E r \in Runs : BridgeCancel(r)
    \/ \E u \in OtherUpdates : OtherSend(u)
    \/ DropSenders
    \/ ConsumerRecv
    \/ ConsumerApply

InitAgents == PipeInit /\ AgentsInit /\ LibQuiet

SpecAgents == InitAgents /\ [][AgentsNext]_vars

\* ======================================================================
\* Properties of run_agent
\* ======================================================================

\* C1: when the deadline passes while reading both streams to end of file
\* and waiting for the child is still pending, run_agent returns a result
\* with success = false, timed_out = true, exit_code = None and
\* completion_detected = false, and the child is not running at the return.
C1_TimeoutResult ==
    [][(InnerPending /\ pc' = "kill") \/ pc = "kill"
         => /\ pc' \in {"kill", "returned"}
            /\ pc' = "returned" =>
                 /\ result'.kind = "ok"
                 /\ result'.success = FALSE
                 /\ result'.timed_out = TRUE
                 /\ result'.exit_code = <<>>
                 /\ result'.completion_detected = FALSE
                 /\ nReturns' = 1
                 /\ child' # "running"]_vars

C1_Witness ==
    /\ pc = "returned"
    /\ result.kind = "ok"
    /\ result.timed_out
    /\ child = "killed"

\* C2: when both reader tasks are joined and the wait yields the exit status
\* before the deadline, the result has timed_out = false, the child's exit
\* code, completion_detected = (the combined output, stdout text then
\* stderr text, contains the completion signal) and
\* success = (exit status 0) and completion_detected.
C2_CompletedResult ==
    [][(pc = "wait" /\ fault # "wait" /\ pc' = "returned")
         => /\ result'.kind = "ok"
            /\ result'.timed_out = FALSE
            /\ result'.exit_code = (CASE child = "exit0" -> <<0>> [] child = "exit1" -> <<1>>
                                      [] OTHER -> <<>>)
            /\ result'.output = cap["out"] \o cap["err"]
            /\ result'.completion_detected
                 = Contains(result'.output, opts.completion_signal)
            /\ result'.success
                 = (child = "exit0" /\ result'.completion_detected)]_vars

\* a run that ends with status 0 and whose signal spans the end of the
\* captured stdout and the start of the captured stderr
C2_Witness ==
    /\ pc = "returned"
    /\ result.kind = "ok"
    /\ ~opts.dry_run
    /\ result.success
    /\ ~Contains(cap["out"], opts.completion_signal)
    /\ ~Contains(cap["err"], opts.completion_signal)

\* C3: every call of run_agent eventually returns, and returns once,
\* whatever the child does (exits, hangs, writes for ever, leaves its
\* standard input unread).
C3_AlwaysReturnsOnce ==
    /\ <>(pc = "returned")
    /\ [](nReturns <= 1)

\* C4: a spawn that fails, a write of the prompt that fails and a wait that
\* fails each make run_agent return an error value, never a result.
C4_FatalErrors ==
    [][(\/ pc = "start" /\ ~opts.dry_run /\ fault = "spawn"
        \/ pc = "write_stdin" /\ stdinLeft > 0 /\ ~stdinRd
        \/ pc = "wait" /\ fault = "wait") /\ pc' # pc
         => /\ pc' = "returned"
            /\ result'.kind = "err"
            /\ nReturns' = 1]_vars

\* the prompt could not be written: the child had closed its standard input
C4_Witness ==
    /\ pc = "returned"
    /\ result = [kind |-> "err", error |-> "stdin"]
    /\ child = "running"

\* C5: with dry_run = true, whatever the other options, run_agent returns
\* success = true, timed_out = false, exit_code = Some(0) and
\* completion_detected = true (and spawns nothing).
C5_DryRun ==
    (opts.dry_run /\ pc # "start")
        => /\ pc = "returned"
           /\ result.kind = "ok"
           /\ result.success = TRUE
           /\ result.timed_out = FALSE
           /\ result.exit_code = <<0>>
           /\ result.completion_detected = TRUE
           /\ child = "none"

C5_Witness ==
    /\ opts.dry_run
    /\ pc = "returned"
    /\ opts.prompt = MaxPrompt
    /\ opts.callbacks

\* ======================================================================
\* Properties of the update pipeline and of the state store
\* ======================================================================

RECURSIVE InOrder(_, _)
\* a is what is left of b when some of its entries are taken out
InOrder(a, b) ==
    IF a = <<>> THEN TRUE
    ELSE IF b = <<>> THEN FALSE
    ELSE IF Head(a) = Head(b) THEN InOrder(Tail(a), Tail(b))
    ELSE InOrder(a, Tail(b))

C7_OnlyConsumerWrites ==
    [][state' # state => cpc' # cpc]_vars

\* C8: get_state returns a copy that reflects a whole number of applied
\* updates (never the state between the two writes of one update), and a
\* later write of the state does not change a snapshot already returned.
C8_WholeSnapshots ==
    [][/\ snapshot' # snapshot => snapshot' = <<committed>>
       /\ state' # state => snapshot' = snapshot]_vars

\* a snapshot taken after a ToolError was applied: the tool is marked Error
\* and the error thought is there
C8_Witness ==
    /\ snapshot # <<>>
    /\ LET a == snapshot[1].activity_by_item["i1"]
       IN  /\ a.tools # <<>>
           /\ a.tools[1].status = "Error"
           /\ a.thoughts = <<ErrorText(<<"ok">>)>>

\* C9: in every state reached by applying updates and calling
\* append_thought, append_tool, with_logs and with_log on a fresh TuiState,
\* each run holds at most 50 thoughts and at most 20 tools, and the log
\* holds at most 500 lines.
C9_BufferCaps ==
    /\ \A id \in DOMAIN state.activity_by_item :
         /\ Len(state.activity_by_item[id].thoughts) <= 50
         /\ Len(state.activity_by_item[id].tools) <= 20
    /\ Len(state.logs) <= 500

\* the 51st thought was pushed: the short thought that was the 50th is now
\* the 49th
C9_Witness ==
    LET th == state.activity_by_item["i1"].thoughts
    IN  /\ Len(th) = 50
        /\ th[49] = <<"hi", SP, "w120">>
        /\ th[50] = LongText

\* C10: once a ToolExecution is Completed or Error, no later event changes
\* its status or its result: in every step, each entry that has left
\* Running is found again with the same status and the same result, at its
\* place or one place earlier (the oldest entry of a full buffer may be
\* evicted).
C10_TerminalStatus ==
    [][\A id \in DOMAIN state.activity_by_item :
         LET old == state.activity_by_item[id].tools
             new == state'.activity_by_item[id].tools
         IN  \A i \in 1..Len(old) :
               old[i].status # "Running"
                 => \/ i = 1 /\ Len(old) = MAX_TOOLS /\ new # old
                    \/ \E j \in {i - 1, i} \cap (1..Len(new)) :
                         /\ new[j].tool_use_id = old[i].tool_use_id
                         /\ new[j].status = old[i].status
                         /\ new[j].result = old[i].result]_vars

\* the tool buffer of a run in a state (empty for an id the state does not
\* know)
ToolsOf(st, id) ==
    IF id \in DOMAIN st.activity_by_item THEN st.activity_by_item[id].tools ELSE <<>>

\* the thought buffer of a run in a state
ThoughtsOf(st, id) ==
    IF id \in DOMAIN st.activity_by_item THEN st.activity_by_item[id].thoughts ELSE <<>>

\* the step applies an AgentEvent of this kind, taken from the stream
AppliesEvent(kind) ==
    /\ nOps' = nOps + 1
    /\ cur' # <<>>
    /\ cur'[1].type = "AgentEvent"
    /\ cur'[1].event.kind = kind

\* C11: after any sequence of AgentEvents, no run's tool buffer holds two
\* entries with status Running and the same tool_id.
C11_UniqueRunningIds ==
    \A id \in DOMAIN state.activity_by_item :
      LET tools == state.activity_by_item[id].tools
      IN  \A i, j \in 1..Len(tools) :
            (i # j /\ tools[i].status = "Running" /\ tools[j].status = "Running")
              => tools[i].tool_use_id # tools[j].tool_use_id

\* C12: applying a ToolResult whose tool_id is not in the run's tool buffer
\* changes nothing: the buffer and the rest of the state stay as they are.
C12_UnknownToolResultNoOp ==
    [][(/\ AppliesEvent("ToolResult")
        /\ \A i \in 1..Len(ToolsOf(state, cur'[1].item_id)) :
             ToolsOf(state, cur'[1].item_id)[i].tool_use_id # cur'[1].event.tool_use_id)
         => state' = state]_vars

\* a ToolResult for t1 was applied to a run whose buffer holds other tools
\* only
C12_Witness ==
    /\ cur = <<AgentEventUpdate("i1", ToolResult("t1", "null"))>>
    /\ nOps > 0
    /\ Len(ToolsOf(state, "i1")) = MAX_TOOLS - 1
    /\ \A i \in 1..Len(ToolsOf(state, "i1")) : ToolsOf(state, "i1")[i].tool_use_id # "t1"

\* the thought an event adds to its run, as an Option
ThoughtOfEvent(ev) ==
    CASE ev.kind = "AssistantText" -> sanitize_assistant_text(ev.text)
      [] ev.kind = "ToolError" -> Some(ErrorText(ev.error))
      [] ev.kind = "Error" -> Some(ErrorText(ev.message))
      [] OTHER -> None

\* the step applies an AgentEvent, taken from the stream
AppliesAgentEvent ==
    /\ nOps' = nOps + 1
    /\ cur' # <<>>
    /\ cur'[1].type = "AgentEvent"

\* C13: eviction is first in, first out: a thought that does not merge,
\* appended to a buffer of 50, removes exactly the oldest entry and keeps
\* the order of the others; a tool appended to a buffer of 20 does the
\* same.
C13_FifoEviction ==
    [][AppliesAgentEvent =>
         LET id == cur'[1].item_id
             ev == cur'[1].event
             oldT == ThoughtsOf(state, id)
             newT == ThoughtsOf(state', id)
             oldTools == ToolsOf(state, id)
             newTools == ToolsOf(state', id)
         IN  /\ (/\ ThoughtOfEvent(ev) # None
                 /\ Len(oldT) = 50
                 /\ TextLen(oldT[50]) >= 120)
                  => newT = Tail(oldT) \o ThoughtOfEvent(ev)
             /\ (ev.kind = "ToolStarted" /\ Len(oldTools) = 20)
                  => /\ Len(newTools) = 20
                     /\ SubSeq(newTools, 1, 19) = Tail(oldTools)
                     /\ newTools[20].tool_use_id = ev.tool_use_id
                     /\ newTools[20].status = "Running"]_vars

\* the 51st thought was applied: the oldest long thought is gone, the
\* thought that began with "hi" moved from place 50 to place 49
C13_Witness ==
    /\ cur = <<AgentEventUpdate("i1", AssistantText(LongText))>>
    /\ nOps = 3
    /\ Len(ThoughtsOf(state, "i1")) = 50
    /\ ThoughtsOf(state, "i1")[48] = LongText
    /\ ThoughtsOf(state, "i1")[49] = <<"hi", SP, "w120">>

\* C14: append_thought merges exactly when the run's last thought is
\* shorter than 120: the last entry becomes the old one, one space and the
\* new text and the length stays; otherwise (empty buffer, or a last entry
\* of 120 or more) the new thought becomes a new last entry.
C14_MergeBelowThreshold ==
    [][(AppliesAgentEvent
        /\ cur'[1].item_id \in DOMAIN state.activity_by_item
        /\ ThoughtOfEvent(cur'[1].event) # None) =>
         LET id == cur'[1].item_id
             x == ThoughtOfEvent(cur'[1].event)[1]
             oldT == ThoughtsOf(state, id)
             newT == ThoughtsOf(state', id)
         IN  IF oldT # <<>> /\ TextLen(oldT[Len(oldT)]) < 120
             THEN /\ Len(newT) = Len(oldT)
                  /\ newT[Len(newT)] = oldT[Len(oldT)] \o <<SP>> \o x
                  /\ SubSeq(newT, 1, Len(newT) - 1) = SubSeq(oldT, 1, Len(oldT) - 1)
             ELSE /\ newT # <<>>
                  /\ newT[Len(newT)] = x
                  /\ Len(oldT) < 50 => newT = Append(oldT, x)]_vars

\* a thought of 120 was not merged into, a thought of 119 was
C14_Witness ==
    /\ cur = <<AgentEventUpdate("i1", AssistantText(<<"hi">>))>>
    /\ ThoughtsOf(state, "i1") = <<LongText, <<"w119", SP, "hi">>>>

\* C15: AppendLogs(L) leaves exactly the last min(500, n) entries of the
\* old log followed by L, n being their combined length.
C15_AppendLogsKeepsLast ==
    [][(nOps' = nOps + 1 /\ cur' # <<>> /\ cur'[1].type = "AppendLogs") =>
         LET all == state.logs \o cur'[1].logs
             n == Len(all)
             k == IF n < 500 THEN n ELSE 500
         IN  state'.logs = SubSeq(all, n - k + 1, n)]_vars

\* 499 lines were appended to a log of 499: the oldest 498 are gone
C15_Witness ==
    /\ cur = <<[type |-> "AppendLogs", logs |-> Lines(MAX_LOGS - 1)]>>
    /\ Len(state.logs) = 500
    /\ state.logs[1] = 499
    /\ state.logs[2] = 1

\* C16: the consumer task keeps pulling and applying updates for as long as
\* the update stream is open, and ends when and only when the stream is
\* closed because all producers have been dropped: a consumer that has
\* ended has seen the stream closed and drained.
C16_ExitsOnlyAtClose ==
    cpc = "exited" => (closed /\ bcast = <<>>)

\* the steps of the timeout branch of run r: the deadline passes, the child
\* is killed and the result is returned
TimeoutStep(r) ==
    \/ pc[r] = "timed" /\ pc'[r] = "kill"
    \/ pc[r] = "kill" /\ pc'[r] = "returned"

\* C17: a timeout in one run cancels only that run's read-and-wait and
\* kills only that run's child: the consumer and every other run are left
\* as they are, and a run that completes returns the result of its own
\* child whatever happened to the others.
C17_TimeoutIsLocal ==
    [][/\ \A r \in Runs : TimeoutStep(r) =>
            /\ \A o \in Runs \ {r} :
                 /\ pc'[o] = pc[o]
                 /\ child'[o] = child[o]
                 /\ cap'[o] = cap[o]
                 /\ result'[o] = result[o]
            /\ <<cpc, cur, lock, state, bcast, lagged, closed>>'
                 = <<cpc, cur, lock, state, bcast, lagged, closed>>
            /\ pc'[r] = "returned" =>
                 /\ result'[r].timed_out
                 /\ child'[r] # "running"
       /\ \A o \in Runs : (pc[o] = "timed" /\ pc'[o] = "returned") =>
            /\ ~result'[o].timed_out
            /\ result'[o].exit_code = StatusCode(child[o])
            /\ result'[o].success = (child[o] = "exit0" /\ Contains(cap[o], AgentSignal))]_vars

\* run i1 timed out and its child was killed; run i2 returned a success of
\* its own; the consumer has applied an update
C17_Witness ==
    /\ pc["i1"] = "returned"
    /\ result["i1"].timed_out
    /\ child["i1"] = "killed"
    /\ pc["i2"] = "returned"
    /\ result["i2"].success
    /\ state.current_iteration = 3

\* the update the bridge of run r makes of the event it holds
Republished(r) == [type |-> "AgentEvent", item_id |-> r, event |-> held[r][1]]

HasTaggedPayload(out) == Contains(out, <<"<assistant_text>", "hi", "</assistant_text>">>)

\* an update of run r is on the update stream, or has been applied
UpdateOnStream(r) ==
    \/ \E i \in 1..Len(tuiChan) : tuiChan[i].type = "AgentEvent" /\ tuiChan[i].item_id = r
    \/ \E i \in 1..Len(bcast) : bcast[i].type = "AgentEvent" /\ bcast[i].item_id = r
    \/ applied[r] # <<>>

\* C19: a run that is not a dry run and whose output has a well-formed
\* tagged payload has published an AgentEvent on its side channel, and an
\* update for that run has reached the update stream, by the time
\* run_agent_with_tui has returned its result.
C19_TaggedOutputPublished ==
    \A r \in Runs :
      (/\ rpc[r] = "returned"
       /\ result[r].kind = "ok"
       /\ ~result[r].timed_out
       /\ HasTaggedPayload(result[r].output))
        => (emitted[r] # <<>> /\ UpdateOnStream(r))

C21_DryRunNoEffect ==
    \A r \in Runs :
      opts[r].dry_run
        => /\ child[r] = "none"
           /\ emitted[r] = <<>>
           /\ side[r] = <<>>
           /\ ~UpdateOnStream(r)
           /\ pc[r] = "returned" => result[r] = DryRunResult

\* the dry run i1 has returned through run_agent_with_tui and its bridge has
\* ended, while the run i2 has spawned a child
C21_Witness ==
    /\ opts["i1"].dry_run
    /\ rpc["i1"] = "returned"
    /\ bridge["i1"] \in {"done", "cancelled"}
    /\ result["i1"] = DryRunResult
    /\ child["i2"] # "none"

\* C22: the output of a completed run is the whole text captured from
\* stdout followed by the whole text captured from stderr, in whatever
\* order the reader tasks end and the child writes; within a stream each
\* line read is the oldest one in the pipe and is put at the end of the
\* text accumulated so far.
C22_StdoutThenStderr ==
    [][((cap' # cap)
          => \A s \in Streams :
               cap'[s] # cap[s]
                 => \E k \in 1..Len(pipe[s]) :
                      /\ pipe'[s] = SubSeq(pipe[s], k + 1, Len(pipe[s]))
                      /\ cap'[s] = cap[s] \o StripEol(SubSeq(pipe[s], 1, k)) \o <<NL>>)
       /\ ((pc' = "returned" /\ pc # "returned")
             => ((result'.kind = "ok" /\ ~result'.timed_out /\ ~opts.dry_run)
                   => /\ task' = [s \in Streams |-> "done"]
                      /\ result'.output = cap'["out"] \o cap'["err"]))]_vars

\* a completed run whose child wrote to both streams, two lines to stderr
\* or one line to each
C22_Witness ==
    /\ pc = "returned"
    /\ result.kind = "ok"
    /\ ~result.timed_out
    /\ cap["err"] # <<>>
    /\ cap["out"] # cap["err"]
    /\ result.output = cap["out"] \o cap["err"]
    /\ Len(result.output) > Len(cap["err"])

\* C23: on timeout a child that still runs is first asked to terminate
\* (SIGTERM) and is hard-killed (SIGKILL) only if it has not exited after
\* the grace period: the step of the timeout branch that finds the child
\* running does not kill it outright.
C23_SoftThenHardKill ==
    [][(pc = "kill" /\ child = "running") => child' # "killed"]_vars

\* C24: while the streams are read, on_stdout and on_stderr are called for
\* each chunk read, in stream order: the chunks handed to a callback, put
\* together, are the text accumulated from its stream so far.
C24_CallbackPerChunk ==
    opts.callbacks => \A s \in Streams : Concat(cb[s]) = cap[s]

\* C29: a run that timed out has released its resources when run_agent has
\* returned: the child is terminated, its stdin is closed, and no reader
\* task of the run (which holds the read end of a pipe) is still running.
C29_TimeoutReleases ==
    (pc = "returned" /\ result.kind = "ok" /\ result.timed_out)
        => /\ child # "running"
           /\ ~stdinRd
           /\ \A s \in Streams : task[s] # "running"

\* ======================================================================
\* parse_agent_line (src/src/agent/parser.rs). A line is a sequence of
\* tokens: the six tags and some payloads, each a run of bytes with no tag
\* in it.
\* ======================================================================

\* the tags of the three regular expressions (parser.rs 9-19)
OpenTag(kind) == "<" \o kind \o ">"
CloseTag(kind) == "</" \o kind \o ">"
MarkerKinds == {"tool_use", "tool_result", "assistant_text"}

\* payloads: JSON objects with and without the fields the parser reads, an
\* object whose toolUseId is a number, and two texts that are not JSON
P_FULL == "{\"toolUseId\":\"t1\",\"name\":\"read\",\"input\":\"in\"}"
P_NOINPUT == "{\"toolUseId\":\"t2\",\"name\":\"write\"}"
P_IDONLY == "{\"toolUseId\":\"t1\"}"
P_NAMEONLY == "{\"name\":\"read\"}"
P_NUMID == "{\"toolUseId\":7,\"name\":\"read\"}"
P_RESULT == "{\"toolUseId\":\"t1\",\"content\":\"out\"}"
P_INVALID == "invalid json"
P_TEXT == "hi"
Payloads == {P_FULL, P_NOINPUT, P_IDONLY, P_NAMEONLY, P_NUMID, P_RESULT, P_INVALID, P_TEXT}

LineTokens ==
    {OpenTag(k) : k \in MarkerKinds} \cup {CloseTag(k) : k \in MarkerKinds} \cup Payloads

\* a JSON string and a JSON number
JStr(v) == [t |-> "str", v |-> v]
JNum(v) == [t |-> "num", v |-> v]

\* the JSON object a payload token is the text of
JsonObject(tok) ==
    CASE tok = P_FULL -> [toolUseId |-> JStr("t1"), name |-> JStr("read"), input |-> JStr("in")]
      [] tok = P_NOINPUT -> [toolUseId |-> JStr("t2"), name |-> JStr("write")]
      [] tok = P_IDONLY -> [toolUseId |-> JStr("t1")]
      [] tok = P_NAMEONLY -> [name |-> JStr("read")]
      [] tok = P_NUMID -> [toolUseId |-> JNum("7"), name |-> JStr("read")]
      [] tok = P_RESULT -> [toolUseId |-> JStr("t1"), content |-> JStr("out")]

\* a decoder that accepts every text, as the object of a full payload
from_str_Lenient(content) ==
    IF Len(content) = 1 /\ content[1] \in Payloads \ {P_INVALID, P_TEXT}
    THEN Some(JsonObject(content[1]))
    ELSE Some(JsonObject(P_FULL))

\* serde_json::from_str::<Value> (parser.rs 28, 43): Ok for a text that is
\* one JSON value; the empty text, two values in a row, a tag and plain
\* words are errors
from_str(content) ==
    IF Len(content) = 1 /\ content[1] \in Payloads \ {P_INVALID, P_TEXT}
    THEN Some(JsonObject(content[1]))
    ELSE None

\* Value::get on an object
JsonGet(obj, key) == IF key \in DOMAIN obj THEN Some(obj[key]) ELSE None

\* Option::and_then(|v| v.as_str())
AsStr(v) == IF v # None /\ v[1].t = "str" THEN Some(v[1].v) ELSE None

\* .cloned().unwrap_or(Value::Null), as the state store shows a value
ValueOrNull(v) == IF v = None THEN "null" ELSE v[1].v

\* positions of the tokens equal to tok
PositionsOf(s, tok) == {i \in 1..Len(s) : s[i] = tok}

Least(S) == CHOOSE i \in S : \A j \in S : i <= j

\* Regex::captures with <kind>(.*?)</kind>: the leftmost match, the content
\* as short as possible; None when there is no match
Captures(s, kind) ==
    LET opens == {i \in PositionsOf(s, OpenTag(kind)) :
                    \E j \in PositionsOf(s, CloseTag(kind)) : j > i}
    IN  IF opens = {} THEN None
        ELSE LET i == Least(opens)
                 j == Least({k \in PositionsOf(s, CloseTag(kind)) : k > i})
             IN  Some(SubSeq(s, i + 1, j - 1))

\* a tool_use marker that needs the identifier only
ToolUseEvents_IdOnly(s) ==
    LET caps == Captures(s, "tool_use")
        parsed == IF caps = None THEN None ELSE from_str(caps[1])
    IN  IF parsed = None THEN <<>>
        ELSE LET tool_use_id == AsStr(JsonGet(parsed[1], "toolUseId"))
                 tool_name == AsStr(JsonGet(parsed[1], "name"))
             IN  IF tool_use_id = None THEN <<>>
                 ELSE <<ToolStarted(tool_use_id[1],
                                    IF tool_name = None THEN "" ELSE tool_name[1],
                                    ValueOrNull(JsonGet(parsed[1], "input")))>>

\* parser.rs 26-39
ToolUseEvents(s) ==
    LET caps == Captures(s, "tool_use")
        parsed == IF caps = None THEN None ELSE from_str(caps[1])
    IN  IF parsed = None THEN <<>>
        ELSE LET tool_use_id == AsStr(JsonGet(parsed[1], "toolUseId"))
                 tool_name == AsStr(JsonGet(parsed[1], "name"))
             IN  IF tool_use_id = None \/ tool_name = None THEN <<>>
                 ELSE <<ToolStarted(tool_use_id[1], tool_name[1],
                                    ValueOrNull(JsonGet(parsed[1], "input")))>>

\* parser.rs 41-51
ToolResultEvents(s) ==
    LET caps == Captures(s, "tool_result")
        parsed == IF caps = None THEN None ELSE from_str(caps[1])
    IN  IF parsed = None THEN <<>>
        ELSE LET tool_use_id == AsStr(JsonGet(parsed[1], "toolUseId"))
             IN  IF tool_use_id = None THEN <<>>
                 ELSE <<ToolResult(tool_use_id[1], ValueOrNull(JsonGet(parsed[1], "content")))>>

\* parser.rs 53-58
AssistantTextEvents(s) ==
    LET caps == Captures(s, "assistant_text")
    IN  IF caps = None THEN <<>> ELSE <<AssistantText(caps[1])>>

\* a parser that reports the text first
parse_agent_line_TextFirst(s) ==
    AssistantTextEvents(s) \o ToolUseEvents(s) \o ToolResultEvents(s)

\* parser.rs 23-61
parse_agent_line(s) == ToolUseEvents(s) \o ToolResultEvents(s) \o AssistantTextEvents(s)

\* one marker: a tag, a payload, the closing tag
Marker(kind, payload) == <<OpenTag(kind), payload, CloseTag(kind)>>
Markers == {Marker(k, pl) : k \in MarkerKinds, pl \in Payloads}

RECURSIVE SeqsUpTo(_, _)
\* the sequences over S of length at most n
SeqsUpTo(S, n) ==
    IF n = 0 THEN {<<>>}
    ELSE LET shorter == SeqsUpTo(S, n - 1)
         IN  shorter \cup {Append(q, x) : q \in {r \in shorter : Len(r) = n - 1}, x \in S}

\* the lines with one marker of each kind, in every order
ThreeMarkers ==
    {Marker(k1, p1) \o Marker(k2, p2) \o Marker(k3, p3) :
       <<k1, k2, k3>> \in {k \in MarkerKinds \X MarkerKinds \X MarkerKinds :
                            k[1] # k[2] /\ k[1] # k[3] /\ k[2] # k[3]},
       p1 \in Payloads, p2 \in Payloads, p3 \in Payloads}

\* the lines given to the parser: every line of at most MaxLine tokens, the
\* lines made of two markers and the lines with a marker of each kind
ParseLines ==
    SeqsUpTo(LineTokens, MaxLine) \cup {a \o b : a \in Markers, b \in Markers}
        \cup ThreeMarkers

ParseInit ==
    /\ srcLine \in ParseLines
    /\ events = None
    /\ workItem = "none"
    /\ verdict = <<>>
    /\ twin = <<>>

\* parse_agent_line is called on the line and returns
ParseLine ==
    /\ events = None
    /\ events' = Some(parse_agent_line(srcLine))
    /\ UNCHANGED <<runVars, storeVars, pipeVars, loopVars, srcLine, workItem, verdict, twin>>

ParseNext == ParseLine

InitParse == ParseInit /\ RunQuiet /\ StoreQuiet /\ PipeQuiet /\ LoopQuiet

SpecParse == InitParse /\ [][ParseNext]_vars

\* ======================================================================
\* Properties of parse_agent_line
\* ======================================================================

\* the events of one kind among evs
OfKind(evs, kind) == SelectSeq(evs, LAMBDA e : e.kind = kind)

\* the payloads that are the text of a JSON value
JsonPayloads == {P_FULL, P_NOINPUT, P_IDONLY, P_NAMEONLY, P_NUMID, P_RESULT}

\* the line has a marker of this kind and the payload of the first one is
\* not the text of a JSON value
MalformedMarker(s, kind) ==
    /\ Captures(s, kind) # None
    /\ LET c == Captures(s, kind)[1] IN ~(Len(c) = 1 /\ c[1] \in JsonPayloads)

\* C25: parse_agent_line returns the empty list for the empty line; a
\* tool_use or tool_result marker whose payload does not decode adds no
\* event, and the call returns all the same with the events of the other
\* markers.
C25_MalformedDropped ==
    /\ events = None => ENABLED ParseLine
    /\ events # None =>
         /\ srcLine = <<>> => events[1] = <<>>
         /\ MalformedMarker(srcLine, "tool_use") => OfKind(events[1], "ToolStarted") = <<>>
         /\ MalformedMarker(srcLine, "tool_result") => OfKind(events[1], "ToolResult") = <<>>
         /\ Len(events[1]) <= 3

\* a tool_use marker with a payload that is not JSON, before an
\* assistant_text marker: the call has returned the text alone
C25_Witness ==
    /\ srcLine = Marker("tool_use", P_INVALID) \o Marker("assistant_text", P_TEXT)
    /\ events = Some(<<AssistantText(<<P_TEXT>>)>>)

\* the identifier and the name written in a payload, where it has them
PayloadId(pl) ==
    CASE pl \in {P_FULL, P_IDONLY, P_RESULT} -> Some("t1")
      [] pl = P_NOINPUT -> Some("t2")
      [] OTHER -> None
PayloadName(pl) ==
    CASE pl \in {P_FULL, P_NAMEONLY} -> Some("read")
      [] pl = P_NOINPUT -> Some("write")
      [] OTHER -> None

\* the line has exactly one tool_use marker, with this payload, and no
\* other tag
OneToolUse(s, pl) ==
    /\ Len(s) = 3
    /\ s = Marker("tool_use", pl)

ReplayUpdates ==
    {AgentEventUpdate("i1", AssistantText(<<"hi">>)),
     AgentEventUpdate("i1", AssistantText(<<"w119">>)),
     AgentEventUpdate("i1", ToolStarted("t0", "read", "in")),
     AgentEventUpdate("i1", ToolResult("t0", "out")),
     AgentEventUpdate("i1", ToolError("t0", <<"ok">>)),
     AgentEventUpdate("i2", ToolStarted("t0", "read", "in")),
     AgentEventUpdate("i1", ErrorEvent(<<"w119">>)),
     [type |-> "SetItemState", item_id |-> "i1", item_state |-> "done"],
     [type |-> "AppendLogs", logs |-> <<701, 702>>],
     [type |-> "ToggleLogs", show |-> TRUE]}

\* state.rs 94-121: two fresh states, equal
ReplayInit ==
    /\ StoreInit
    /\ twin = [state |-> TuiStateNew(Items, 0), now |-> 0]
    /\ srcLine = <<>>
    /\ events = <<>>
    /\ workItem = "none"
    /\ verdict = <<>>

\* runner.rs 71-101: the next update of the sequence is applied to each of
\* the two states, at the time of its own clock
ReplayApply(u) ==
    /\ nOps < MaxOps
    /\ cur' = <<u>>
    /\ state' = ApplyUpdate(state, u, now)
    /\ twin' = [twin EXCEPT !.state = ApplyUpdate(twin.state, u, twin.now)]
    /\ nOps' = nOps + 1
    /\ UNCHANGED <<runVars, runsVars, tuiRest, loopVars, now, srcLine, events, workItem, verdict>>

\* time passes for the first state
ReplayTick ==
    /\ now < MaxClock
    /\ now' = now + 1
    /\ UNCHANGED <<runVars, runsVars, tuiVars, state, nOps, libVars>>

\* time passes for the second state
ReplayTwinTick ==
    /\ twin.now < MaxClock
    /\ twin' = [twin EXCEPT !.now = @ + 1]
    /\ UNCHANGED <<runVars, storeVars, pipeVars, loopVars, srcLine, events, workItem, verdict>>

ReplayNext ==
    \/ \E u \in ReplayUpdates : ReplayApply(u)
    \/ ReplayTick
    \/ ReplayTwinTick

InitReplay == ReplayInit /\ RunQuiet /\ PipeQuiet /\ LoopQuiet

SpecReplay == InitReplay /\ [][ReplayNext]_vars

\* a tool execution without the times of its start and of its finish
UntimedTool(tool) ==
    [tool EXCEPT !.started_at = 0,
                 !.finished_at = IF tool.finished_at = None THEN None ELSE Some(0)]

\* a TuiState without the times it recorded
Untimed(st) ==
    [st EXCEPT
       !.start_time = 0,
       !.activity_by_item =
           [id \in DOMAIN st.activity_by_item |->
              [thoughts |-> st.activity_by_item[id].thoughts,
               tools |-> [i \in 1..Len(st.activity_by_item[id].tools) |->
                            UntimedTool(st.activity_by_item[id].tools[i])]]]]

\* C27: the same sequence of updates applied to two fresh, equal TuiStates
\* yields states that are equal in every field but the times recorded in
\* the tool executions (started_at, finished_at), whenever each update is
\* applied; a tool execution has a finish time in one exactly when it has
\* one in the other.
C27_EqualButTimestamps ==
    Untimed(state) = Untimed(twin.state)

\* a tool was started and finished in both states, at different times
C27_Witness ==
    /\ nOps >= 2
    /\ state # twin.state
    /\ \E i \in 1..Len(state.activity_by_item["i1"].tools) :
         /\ state.activity_by_item["i1"].tools[i].status = "Completed"
         /\ state.activity_by_item["i1"].tools[i].finished_at
              # twin.state.activity_by_item["i1"].tools[i].finished_at

\* C27 as claimed: the same sequence of updates applied to two fresh, equal
\* TuiStates yields equal states, whatever the timing.
C27_ReplayIdentical ==
    state = twin.state

\* ======================================================================
\* The workflow of an item (src/src/domain/states.rs, validation.rs,
\* transitions.rs). workItem is the state field of the item.
\* ======================================================================

\* states.rs 12-19
WORKFLOW_STATES == <<"idea", "researched", "planned", "implementing", "in_pr", "done">>

WorkflowState == {WORKFLOW_STATES[i] : i \in 1..Len(WORKFLOW_STATES)}

\* states.rs 24-29: the 0-based position in WORKFLOW_STATES
get_state_index(st) ==
    CHOOSE i \in 0..(Len(WORKFLOW_STATES) - 1) : WORKFLOW_STATES[i + 1] = st

\* a progression that skips a state where it can
get_next_state_Skip(current) ==
    LET index == get_state_index(current)
    IN  IF index >= Len(WORKFLOW_STATES) - 1 THEN None
        ELSE IF index + 2 <= Len(WORKFLOW_STATES) - 1 THEN Some(WORKFLOW_STATES[index + 3])
        ELSE Some(WORKFLOW_STATES[index + 2])

\* states.rs 41-47
get_next_state(current) ==
    LET index == get_state_index(current)
    IN  IF index >= Len(WORKFLOW_STATES) - 1 THEN None
        ELSE Some(WORKFLOW_STATES[index + 2])

\* states.rs 59-64: a Vec of no or one state
get_allowed_next_states(current) == get_next_state(current)

\* validation.rs 50-63
ValidationSuccess == [valid |-> TRUE, reason |-> None]
ValidationFailure(reason) == [valid |-> FALSE, reason |-> Some(reason)]

\* a PRD is the sequence of the statuses of its user stories
StoryStatus == {"pending", "done"}
\* PRDs with a finished and an unfinished story
MixedPrds == {Some(<<"done", "pending">>), Some(<<"pending", "done">>)}
Prds == {None} \cup {Some(q) : q \in SeqsUpTo(StoryStatus, MaxStories)} \cup MixedPrds

\* validation.rs 9-24
ValidationContexts ==
    [has_research_md : BOOLEAN, has_plan_md : BOOLEAN, prd : Prds, has_pr : BOOLEAN,
     pr_merged : BOOLEAN]

\* a PRD that counts as done once one story is
all_stories_done_Any(prd) ==
    IF prd = None THEN FALSE ELSE \E i \in 1..Len(prd[1]) : prd[1][i] = "done"

\* validation.rs 67-77
all_stories_done(prd) ==
    IF prd = None THEN FALSE
    ELSE IF prd[1] = <<>> THEN FALSE
    ELSE \A i \in 1..Len(prd[1]) : prd[1][i] = "done"

\* validation.rs 80-85
has_pending_stories(prd) ==
    IF prd = None THEN FALSE ELSE \E i \in 1..Len(prd[1]) : prd[1][i] = "pending"

\* validation.rs 88-93
can_enter_researched(has_research_md) ==
    IF ~has_research_md THEN ValidationFailure("research.md does not exist")
    ELSE ValidationSuccess

\* validation.rs 96-104
can_enter_planned(has_plan_md, prd) ==
    IF ~has_plan_md THEN ValidationFailure("plan.md does not exist")
    ELSE IF prd = None THEN ValidationFailure("prd.json is not valid")
    ELSE ValidationSuccess

\* validation.rs 107-112
can_enter_implementing(prd) ==
    IF ~has_pending_stories(prd)
    THEN ValidationFailure("prd.json has no stories with status pending")
    ELSE ValidationSuccess

\* validation.rs 115-123
can_enter_in_pr(prd, has_pr) ==
    IF ~all_stories_done(prd) THEN ValidationFailure("not all stories are done")
    ELSE IF ~has_pr THEN ValidationFailure("PR not created")
    ELSE ValidationSuccess

\* validation.rs 126-131
can_enter_done(pr_merged) ==
    IF ~pr_merged THEN ValidationFailure("PR not merged") ELSE ValidationSuccess

\* validation.rs 134-155
validate_transition(current, target, ctx) ==
    IF get_allowed_next_states(current) # Some(target)
    THEN ValidationFailure("cannot transition")
    ELSE CASE target = "researched" -> can_enter_researched(ctx.has_research_md)
           [] target = "planned" -> can_enter_planned(ctx.has_plan_md, ctx.prd)
           [] target = "implementing" -> can_enter_implementing(ctx.prd)
           [] target = "in_pr" -> can_enter_in_pr(ctx.prd, ctx.has_pr)
           [] target = "done" -> can_enter_done(ctx.pr_merged)
           [] target = "idea" -> ValidationFailure("cannot transition to idea state")

\* transitions.rs 67-88, on the state field of the item
apply_state_transition(itemState, ctx) ==
    LET next_state == get_next_state(itemState)
    IN  IF next_state = None
        THEN [kind |-> "Error", error |-> "Cannot transition from terminal state"]
        ELSE LET validation == validate_transition(itemState, next_state[1], ctx)
             IN  IF ~validation.valid
                 THEN [kind |-> "Error", error |-> validation.reason[1]]
                 ELSE [kind |-> "Success", next_item |-> next_state[1]]

\* item.rs: a new item is an idea
FlowInit ==
    /\ workItem = "idea"
    /\ verdict = None
    /\ srcLine = <<>>
    /\ events = <<>>
    /\ twin = <<>>

\* validation.rs 134: a caller asks whether the item may move to target
FlowValidate(target, ctx) ==
    /\ verdict' = Some([op |-> "validate", current |-> workItem, target |-> target,
                        ctx |-> ctx,
                        valid |-> validate_transition(workItem, target, ctx).valid])
    /\ UNCHANGED <<runVars, storeVars, pipeVars, loopVars, srcLine, events, workItem, twin>>

\* transitions.rs 67: a caller applies the transition and, on success,
\* keeps the item it is given back
FlowApply(ctx) ==
    LET res == apply_state_transition(workItem, ctx)
    IN  /\ workItem' = IF res.kind = "Success" THEN res.next_item ELSE workItem
        /\ verdict' = Some([op |-> "apply", current |-> workItem,
                            target |-> IF res.kind = "Success" THEN res.next_item
                                       ELSE "none",
                            ctx |-> ctx, valid |-> res.kind = "Success"])
        /\ UNCHANGED <<runVars, storeVars, pipeVars, loopVars, srcLine, events, twin>>

FlowNext ==
    \/ \E target \in WorkflowState, ctx \in ValidationContexts : FlowValidate(target, ctx)
    \/ \E ctx \in ValidationContexts : FlowApply(ctx)

InitFlow == FlowInit /\ RunQuiet /\ StoreQuiet /\ PipeQuiet /\ LoopQuiet

SpecFlow == InitFlow /\ [][FlowNext]_vars

\* the place of a state in idea -> researched -> planned -> implementing
\* -> in_pr -> done
Rank(st) ==
    CASE st = "idea" -> 0
      [] st = "researched" -> 1
      [] st = "planned" -> 2
      [] st = "implementing" -> 3
      [] st = "in_pr" -> 4
      [] st = "done" -> 5

\* C28: validate_transition accepts no target but the immediate successor
\* of the current state (no skip, no move back, no self-loop, nothing from
\* done), and an apply_state_transition that succeeds moves the item by
\* exactly one state: the rank of the item never decreases and done is
\* never left.
C28_LinearWorkflow ==
    [][/\ (verdict' # None /\ verdict'[1].valid)
            => /\ Rank(verdict'[1].target) = Rank(verdict'[1].current) + 1
               /\ verdict'[1].current # "done"
       /\ workItem' # workItem
            => /\ Rank(workItem') = Rank(workItem) + 1
               /\ verdict'[1].op = "apply"
               /\ verdict'[1].valid
       /\ workItem = "done" => workItem' = "done"]_vars

\* the item has gone all the way to done, and a move from done has just
\* been refused although every artifact is there
C28_Witness ==
    /\ workItem = "done"
    /\ verdict # None
    /\ verdict[1].op = "validate"
    /\ verdict[1].current = "done"
    /\ ~verdict[1].valid
    /\ verdict[1].ctx.pr_merged
    /\ verdict[1].ctx.has_research_md

\* ======================================================================
\* The producers of the update stream while nothing is taken from the
\* broadcast channel: the runs, their bridges, and the other calls of
\* run_agent_with_tui that share tui_tx.
\* ======================================================================

\* what the bridge of another call sends
BacklogUpdate == AgentEventUpdate("ix", AssistantText(<<"hi">>))

\* agent_helper.rs 33: the bridges of other calls, which hold clones of
\* tui_tx, send until the channel is full
TuiBacklog ==
    /\ ~closed
    /\ budget.aside > 0
    /\ Len(tuiChan) < TUI_UPDATE_CAPACITY
    /\ tuiChan' = tuiChan \o [i \in 1..(TUI_UPDATE_CAPACITY - Len(tuiChan)) |-> BacklogUpdate]
    /\ budget' = [budget EXCEPT !.aside = @ - 1]
    /\ UNCHANGED <<libVars, runVars, storeVars, runsVars, bcast, lagged, closed, cpc, cur,
                   lock, snapshot, applied, committed>>

BacklogNext ==
    \/ \E r \in Runs : StartRun(r)
    \/ \E r \in Runs : \E ev \in RunEvents(r) : RunEmit(r, ev)
    \/ \E r \in Runs : RunReturn(r)
    \/ \E r \in Runs : BridgeRecv(r)
    \/ \E r \in Runs : BridgeEnd(r)
    \/ \E r \in Runs : BridgeSend(r)
    \/ \E r \in Runs : BridgeCancel(r)
    \/ TuiBacklog
    \/ Relay

SpecBacklog == InitPipe /\ [][BacklogNext]_vars

AllTools == UNION {{ToolsOf(state, id)[i] : i \in 1..Len(ToolsOf(state, id))} :
                    id \in DOMAIN state.activity_by_item}

\* C31: every ToolExecution of every run: Running has no result and no
\* finish time; Completed has a result and a finish time; Error has no
\* result and a finish time.
C31_ToolFieldsConsistent ==
    \A tool \in AllTools :
      /\ tool.status \in {"Running", "Completed", "Error"}
      /\ tool.status = "Running" => tool.result = None /\ tool.finished_at = None
      /\ tool.status = "Completed" => tool.result # None /\ tool.finished_at # None
      /\ tool.status = "Error" => tool.result = None /\ tool.finished_at # None

\* one run holds a running, a completed and a failed tool at once
C31_Witness ==
    /\ \E tool \in AllTools : tool.status = "Running"
    /\ \E tool \in AllTools : tool.status = "Completed" /\ tool.result = Some("null")
    /\ \E tool \in AllTools : tool.status = "Error"

\* the places of a run's buffer that hold this tool_use_id
PlacesOf(tools, tool_use_id) == {i \in 1..Len(tools) : tools[i].tool_use_id = tool_use_id}

\* the earliest of some places
Earliest(places) == CHOOSE i \in places : \A j \in places : i <= j

\* C32: ToolError(tool_id, error) for a tool that is in the run's buffer
\* leaves that tool (the earliest entry with the id) with status Error, no
\* result and the finish time of the call, and the run's last thought is
\* '[ERROR] <error>', alone or after the old last thought and one space
\* when that one was shorter than 120.
C32_ToolErrorMarksTool ==
    [][(/\ AppliesEvent("ToolError")
        /\ PlacesOf(ToolsOf(state, cur'[1].item_id), cur'[1].event.tool_use_id) # {})
         => LET id == cur'[1].item_id
                ev == cur'[1].event
                k == Earliest(PlacesOf(ToolsOf(state, id), ev.tool_use_id))
                tool == ToolsOf(state', id)[k]
                oldT == ThoughtsOf(state, id)
                newT == ThoughtsOf(state', id)
                text == <<"[ERROR]", SP>> \o ev.error
            IN  /\ Len(ToolsOf(state', id)) = Len(ToolsOf(state, id))
                /\ tool.tool_use_id = ev.tool_use_id
                /\ tool.status = "Error"
                /\ tool.result = None
                /\ tool.finished_at = Some(now)
                /\ newT # <<>>
                /\ newT[Len(newT)] =
                      IF oldT # <<>> /\ TextLen(oldT[Len(oldT)]) < 120
                      THEN oldT[Len(oldT)] \o <<SP>> \o text ELSE text]_vars

\* a ToolError for t0 was applied to a run that held t0 and the short
\* thought hi: t0 failed and the error text was merged into the thought
C32_Witness ==
    /\ cur = <<AgentEventUpdate("i1", ToolError("t0", <<"ok">>))>>
    /\ nOps = 3
    /\ Len(ToolsOf(state, "i1")) = 1
    /\ ToolsOf(state, "i1")[1].status = "Error"
    /\ ToolsOf(state, "i1")[1].finished_at = Some(1)
    /\ ThoughtsOf(state, "i1") = <<<<"hi", SP, "[ERROR]", SP, "ok">>>>

\* ---- the scalar updates ----
\* the field a scalar update writes, and the value it carries
ScalarField(u) ==
    CASE u.type = "SetCurrentItem" -> <<"current_item", u.item>>
      [] u.type = "SetCurrentPhase" -> <<"current_phase", u.phase>>
      [] u.type = "SetIteration" -> <<"current_iteration", u.iteration>>
      [] u.type = "SetCompletedCount" -> <<"completed_count", u.count>>
      [] u.type = "ToggleLogs" -> <<"show_logs", u.show>>

ScalarUpdates ==
    {"SetCurrentItem", "SetCurrentPhase", "SetIteration", "SetCompletedCount", "ToggleLogs"}

\* C33: SetCurrentItem, SetCurrentPhase, SetIteration, SetCompletedCount
\* and ToggleLogs each leave their one field holding the given value and
\* every other field of the state (items, logs, activity buffers, the other
\* scalars) as it was.
C33_ScalarUpdatesOneField ==
    [][(nOps' = nOps + 1 /\ cur' # <<>> /\ cur'[1].type \in ScalarUpdates)
         => /\ DOMAIN state' = DOMAIN state
            /\ state'[ScalarField(cur'[1])[1]] = ScalarField(cur'[1])[2]
            /\ \A f \in DOMAIN state \ {ScalarField(cur'[1])[1]} : state'[f] = state[f]]_vars

\* the current item was set in a state that already had a phase and logs
C33_Witness ==
    /\ cur = <<[type |-> "SetCurrentItem", item |-> Some("i1")]>>
    /\ nOps = 3
    /\ state.current_item = Some("i1")
    /\ state.current_phase = Some("plan")
    /\ state.logs = <<701, 702>>

\* ---- the fields of a returned result ----
\* C34: every result run_agent returns, on any path: success implies
\* timed_out = false, exit_code = Some(0) and completion_detected = true;
\* timed_out implies success = false, exit_code = None and
\* completion_detected = false.
C34_ResultFieldsConsistent ==
    (pc = "returned" /\ result.kind = "ok")
      => /\ result.success
              => /\ ~result.timed_out
                 /\ result.exit_code = Some(0)
                 /\ result.completion_detected
         /\ result.timed_out
              => /\ ~result.success
                 /\ result.exit_code = None
                 /\ ~result.completion_detected

\* a child that exited with 0 and never printed the completion signal: the
\* returned result has the exit code and no success
C34_Witness ==
    /\ pc = "returned"
    /\ ~opts.dry_run
    /\ result.kind = "ok"
    /\ result.exit_code = Some(0)
    /\ ~result.timed_out
    /\ ~result.completion_detected
    /\ ~result.success

\* ---- repeated tool ids ----
\* C35: when a run's buffer holds several entries with one tool_id, a
\* ToolResult or ToolError for that id updates the earliest of them and
\* leaves every other entry, the later ones with the same id included, as
\* it was.
C35_EarliestDuplicateUpdated ==
    [][((AppliesEvent("ToolResult") \/ AppliesEvent("ToolError"))
        /\ Cardinality(PlacesOf(ToolsOf(state, cur'[1].item_id),
                                cur'[1].event.tool_use_id)) > 1)
         => LET id == cur'[1].item_id
                ev == cur'[1].event
                old == ToolsOf(state, id)
                new == ToolsOf(state', id)
                k == Earliest(PlacesOf(old, ev.tool_use_id))
            IN  /\ Len(new) = Len(old)
                /\ new[k].status = IF ev.kind = "ToolResult" THEN "Completed" ELSE "Error"
                /\ new[k].finished_at = Some(now)
                /\ SubSeq(new, 1, k - 1) = SubSeq(old, 1, k - 1)
                /\ SubSeq(new, k + 1, Len(new)) = SubSeq(old, k + 1, Len(old))]_vars

\* t1 was started twice, as read and as write; the result completed the
\* read and left the write running
C35_Witness ==
    /\ cur = <<AgentEventUpdate("i1", ToolResult("t1", "null"))>>
    /\ nOps = 3
    /\ Len(ToolsOf(state, "i1")) = 2
    /\ ToolsOf(state, "i1")[1].tool_use_id = "t1"
    /\ ToolsOf(state, "i1")[1].tool_name = "read"
    /\ ToolsOf(state, "i1")[1].status = "Completed"
    /\ ToolsOf(state, "i1")[2].tool_use_id = "t1"
    /\ ToolsOf(state, "i1")[2].tool_name = "write"
    /\ ToolsOf(state, "i1")[2].status = "Running"

\* ---- a ToolError for a tool the run does not hold ----
\* C36: a ToolError whose tool_id is not in the run's tool buffer leaves
\* the buffer as it was and still adds '[ERROR] <error>' to the run's
\* thoughts (alone, or merged into a last thought shorter than 120), so the
\* state changes.
C36_UnknownToolErrorStillThought ==
    [][(/\ AppliesEvent("ToolError")
        /\ cur'[1].item_id \in DOMAIN state.activity_by_item
        /\ PlacesOf(ToolsOf(state, cur'[1].item_id), cur'[1].event.tool_use_id) = {})
         => LET id == cur'[1].item_id
                oldT == ThoughtsOf(state, id)
                newT == ThoughtsOf(state', id)
                text == <<"[ERROR]", SP>> \o cur'[1].event.error
            IN  /\ ToolsOf(state', id) = ToolsOf(state, id)
                /\ newT # oldT
                /\ newT # <<>>
                /\ newT[Len(newT)] =
                      IF oldT # <<>> /\ TextLen(oldT[Len(oldT)]) < 120
                      THEN oldT[Len(oldT)] \o <<SP>> \o text ELSE text
                /\ state' # state]_vars

\* a ToolError for t0 was applied to a run that holds t1 only: t1 still
\* runs and the error text is the run's one thought
C36_Witness ==
    /\ cur = <<AgentEventUpdate("i1", ToolError("t0", <<"ok">>))>>
    /\ nOps = 2
    /\ Len(ToolsOf(state, "i1")) = 1
    /\ ToolsOf(state, "i1")[1].tool_use_id = "t1"
    /\ ToolsOf(state, "i1")[1].status = "Running"
    /\ ThoughtsOf(state, "i1") = <<<<"[ERROR]", SP, "ok">>>>

\* ---- the frame of an AgentEvent ----
\* C37: an AgentEvent for run X leaves every field but the activity logs
\* as it was (logs, counters, current item and phase, item list), leaves
\* every other run's thoughts and tools as they were and creates no
\* activity log; when X is not an item the state was created with, the
\* whole state is as it was.
C37_AgentEventFrame ==
    [][AppliesAgentEvent
         => LET X == cur'[1].item_id
            IN  /\ DOMAIN state' = DOMAIN state
                /\ \A f \in DOMAIN state \ {"activity_by_item"} : state'[f] = state[f]
                /\ DOMAIN state'.activity_by_item = DOMAIN state.activity_by_item
                /\ \A id \in DOMAIN state.activity_by_item \ {X} :
                     state'.activity_by_item[id] = state.activity_by_item[id]
                /\ X \notin {Items[i].id : i \in 1..Len(Items)} => state' = state]_vars

\* a tool was started in run i2 of a state that holds logs and a thought
\* of run i1
C37_Witness ==
    /\ cur = <<AgentEventUpdate("i2", ToolStarted("t0", "read", "in"))>>
    /\ nOps = 3
    /\ state.logs = <<701, 702>>
    /\ ThoughtsOf(state, "i1") = <<<<"hi">>>>
    /\ Len(ToolsOf(state, "i2")) = 1

\* ---- the events of one line ----
\* the place of an event kind in the order the parser reports them
KindRank(kind) ==
    CASE kind = "ToolStarted" -> 1
      [] kind = "ToolResult" -> 2
      [] kind = "AssistantText" -> 3

\* the events the first of two markers of one kind stands for
FirstMarkerEvents(kind, pl) ==
    CASE kind = "tool_use" ->
            IF PayloadId(pl) # None /\ PayloadName(pl) # None
            THEN <<[kind |-> "ToolStarted", tool_use_id |-> PayloadId(pl)[1],
                    tool_name |-> PayloadName(pl)[1],
                    input |-> IF pl = P_FULL THEN "in" ELSE "null"]>>
            ELSE <<>>
      [] kind = "tool_result" ->
            IF PayloadId(pl) # None
            THEN <<[kind |-> "ToolResult", tool_use_id |-> PayloadId(pl)[1],
                    result |-> IF pl = P_RESULT THEN "out" ELSE "null"]>>
            ELSE <<>>
      [] kind = "assistant_text" -> <<[kind |-> "AssistantText", text |-> <<pl>>]>>

\* C38: parse_agent_line returns at most one event of each kind and so at
\* most three events, in the order ToolStarted, ToolResult, AssistantText
\* whatever the order of the tags in the line; of two markers of one kind
\* only the first is used.
C38_OnePerKindFixedOrder ==
    events # None =>
      LET evs == events[1]
      IN  /\ Len(evs) <= 3
          /\ \A i \in 1..Len(evs) : evs[i].kind \in {"ToolStarted", "ToolResult", "AssistantText"}
          /\ \A i, j \in 1..Len(evs) : i < j => KindRank(evs[i].kind) < KindRank(evs[j].kind)
          /\ \A kind \in MarkerKinds : \A pa, pb \in Payloads :
                srcLine = Marker(kind, pa) \o Marker(kind, pb)
                  => evs = FirstMarkerEvents(kind, pa)

\* a line with the text first and the tool_use last was parsed: three
\* events, the ToolStarted first and the text last
C38_Witness ==
    /\ srcLine = Marker("assistant_text", P_TEXT) \o Marker("tool_result", P_RESULT)
                    \o Marker("tool_use", P_FULL)
    /\ events = Some(<<ToolStarted("t1", "read", "in"), ToolResult("t1", "out"),
                       AssistantText(<<P_TEXT>>)>>)

\* ---- the PRD guards of planned -> implementing -> in_pr ----
\* the stories of an optional PRD
StoriesOf(prd) == IF prd = None THEN <<>> ELSE prd[1]

\* C39: all_stories_done(prd) and has_pending_stories(prd) are never both
\* true: of a PRD with stories exactly one holds, of an absent or empty PRD
\* neither; so no context that lets an item move from planned to
\* implementing lets one move from implementing to in_pr, and conversely.
C39_PrdGuardsExclusive ==
    verdict # None =>
      LET v == verdict[1]
          prd == v.ctx.prd
      IN  /\ ~(all_stories_done(prd) /\ has_pending_stories(prd))
          /\ StoriesOf(prd) # <<>> => (all_stories_done(prd) # has_pending_stories(prd))
          /\ StoriesOf(prd) = <<>> => ~all_stories_done(prd) /\ ~has_pending_stories(prd)
          /\ (v.current = "planned" /\ v.target = "implementing" /\ v.valid)
                => ~validate_transition("implementing", "in_pr", v.ctx).valid
          /\ (v.current = "implementing" /\ v.target = "in_pr" /\ v.valid)
                => ~validate_transition("planned", "implementing", v.ctx).valid

\* a planned item may start implementing a PRD with one story done and one
\* pending, with the pull request already there
C39_Witness ==
    /\ verdict # None
    /\ verdict[1].op = "validate"
    /\ verdict[1].current = "planned"
    /\ verdict[1].target = "implementing"
    /\ verdict[1].valid
    /\ verdict[1].ctx.prd = Some(<<"done", "pending">>)
    /\ verdict[1].ctx.has_pr

\* ======================================================================
\* The key loop of TuiRunner (src/src/tui/runner.rs 193-320) and the logs
\* pane it draws (src/src/tui/widgets.rs 207-236)
\* ======================================================================

\* usize arithmetic is modulo 2^64 on the 64-bit targets. TLC's integers
\* are 32 bits wide and every length, height and offset here is far below
\* 2^30, so the model wraps at 2^30: a sum or a difference wraps here
\* exactly when it wraps there.
USIZE == 2^30

\* runner.rs 271, 279: let logs_height = 15
LOGS_HEIGHT == 15

\* usize::saturating_sub
saturating_sub(a, b) == IF a >= b THEN a - b ELSE 0

Min(a, b) == IF a <= b THEN a ELSE b

\* widgets.rs 208-226: the slice of the log the pane shows; checks says
\* whether the build panics on integer overflow (debug) or wraps (release)
render_logs_pane(height, st, offset, checks) ==
    LET max_log_lines == height
        len == Len(st.logs)
    IN  IF st.logs = <<>> THEN [kind |-> "placeholder"]
        ELSE IF offset + max_log_lines > len /\ len < max_log_lines /\ checks
        THEN [kind |-> "panic", at |-> "subtract"]
        ELSE LET start == IF offset + max_log_lines > len
                          THEN (len - max_log_lines) % USIZE
                          ELSE offset
             IN  IF start + max_log_lines >= USIZE /\ checks
                 THEN [kind |-> "panic", at |-> "add"]
                 ELSE LET end == Min((start + max_log_lines) % USIZE, len)
                      IN  IF start > end \/ end > len
                          THEN [kind |-> "panic", at |-> "slice"]
                          ELSE [kind |-> "window", start |-> start, end |-> end]

\* the loop runs until a key quits it or a panic unwinds it
LoopRunning == pane.kind \notin {"panic", "quit"}

\* runner.rs 110-111, and a fresh state
LoopInit ==
    /\ StoreInit
    /\ scroll_offset = 0
    /\ auto_scroll = TRUE
    /\ drawn = None
    /\ pane = [kind |-> "none"]
    /\ srcLine = <<>>
    /\ events = <<>>
    /\ workItem = "none"
    /\ verdict = <<>>
    /\ twin = <<>>

\* runner.rs 88-90: the consumer task applies an AppendLogs
LoopAppendLogs(lines) ==
    /\ LoopRunning
    /\ Len(state.logs) + Len(lines) <= MaxLogLines
    /\ state' = with_logs(state, lines)
    /\ UNCHANGED <<runVars, pipeVars, now, nOps, srcLine, events, workItem, verdict, twin,
                   loopVars>>

\* runner.rs 197-241: a round begins: get_state, then terminal.draw on a
\* terminal whose main area has this height
LoopDraw(height, checks) ==
    /\ LoopRunning
    /\ drawn = None
    /\ drawn' = Some(state)
    /\ pane' = IF state.show_logs
               THEN render_logs_pane(height, state, scroll_offset, checks)
               ELSE [kind |-> "activity"]
    /\ UNCHANGED <<runVars, storeVars, pipeVars, srcLine, events, workItem, verdict, twin,
                   scroll_offset, auto_scroll>>

\* runner.rs 313-316: the end of a round
AfterRound(offset, auto) == IF auto THEN 0 ELSE offset

\* the round ends with these fields; the state the loop fetched is dropped
EndRound(offset, auto) ==
    /\ LoopRunning
    /\ drawn # None
    /\ scroll_offset' = AfterRound(offset, auto)
    /\ auto_scroll' = auto
    /\ drawn' = None
    /\ UNCHANGED <<runVars, pipeVars, now, nOps, srcLine, events, workItem, verdict, twin, pane>>

\* runner.rs 244: poll times out, no key
NoKey == EndRound(scroll_offset, auto_scroll) /\ UNCHANGED state

\* runner.rs 248-250, 296-302: q and Ctrl-C return from the loop
KeyQuit ==
    /\ LoopRunning
    /\ drawn # None
    /\ pane' = [kind |-> "quit"]
    /\ drawn' = None
    /\ UNCHANGED <<runVars, storeVars, pipeVars, srcLine, events, workItem, verdict, twin,
                   scroll_offset, auto_scroll>>

\* runner.rs 251-254: l
KeyLogs ==
    /\ EndRound(scroll_offset, auto_scroll)
    /\ state' = with_show_logs(state, ~state.show_logs)

\* runner.rs 255-261: j, Down
KeyDown ==
    /\ drawn # None
    /\ IF drawn[1].show_logs /\ scroll_offset > 0
       THEN EndRound(scroll_offset - 1, FALSE)
       ELSE EndRound(scroll_offset, auto_scroll)
    /\ UNCHANGED state

\* runner.rs 262-268: k, Up
KeyUp ==
    /\ drawn # None
    /\ scroll_offset + 1 <= MaxScroll
    /\ IF drawn[1].show_logs
       THEN EndRound(scroll_offset + 1, FALSE)
       ELSE EndRound(scroll_offset, auto_scroll)
    /\ UNCHANGED state

\* runner.rs 269-276: PageDown
KeyPageDown ==
    /\ drawn # None
    /\ IF drawn[1].show_logs
       THEN EndRound(saturating_sub(scroll_offset, LOGS_HEIGHT), FALSE)
       ELSE EndRound(scroll_offset, auto_scroll)
    /\ UNCHANGED state

\* runner.rs 277-283: PageUp
KeyPageUp ==
    /\ drawn # None
    /\ scroll_offset + LOGS_HEIGHT <= MaxScroll
    /\ IF drawn[1].show_logs
       THEN EndRound(scroll_offset + LOGS_HEIGHT, FALSE)
       ELSE EndRound(scroll_offset, auto_scroll)
    /\ UNCHANGED state

\* runner.rs 284-289: g
KeyTop ==
    /\ drawn # None
    /\ IF drawn[1].show_logs
       THEN EndRound(Len(drawn[1].logs), FALSE)
       ELSE EndRound(scroll_offset, auto_scroll)
    /\ UNCHANGED state

\* runner.rs 290-295: G
KeyBottom ==
    /\ drawn # None
    /\ IF drawn[1].show_logs
       THEN EndRound(0, TRUE)
       ELSE EndRound(scroll_offset, auto_scroll)
    /\ UNCHANGED state

LoopNext ==
    \/ \E lines \in {<<701>>, <<701, 702>>} : LoopAppendLogs(lines)
    \/ \E height \in 0..MaxHeight, checks \in BOOLEAN : LoopDraw(height, checks)
    \/ NoKey
    \/ KeyQuit
    \/ KeyLogs
    \/ KeyDown
    \/ KeyUp
    \/ KeyPageDown
    \/ KeyPageUp
    \/ KeyTop
    \/ KeyBottom

InitLoop == LoopInit /\ RunQuiet /\ PipeQuiet

SpecLoop == InitLoop /\ [][LoopNext]_vars

\* C40: render_logs_pane never panics and never reads outside the log:
\* for every log, every height of the pane and every scroll_offset the keys
\* can produce, no step of its arithmetic wraps below zero and the window
\* it shows satisfies 0 <= start <= end <= logs.len().
C40_LogWindowInRange ==
    /\ pane.kind # "panic"
    /\ pane.kind = "window"
         => /\ 0 <= pane.start
            /\ pane.start <= pane.end
            /\ drawn # None => pane.end <= Len(drawn[1].logs)

====
